---- MODULE Spec2Model ----
(***************************************************************************)
(* SmartPark admin dashboard: the dashboard shell, the three list views    *)
(* (UsersManagement, ActiveParking, ParkingHistory) and the RFID modal,    *)
(* as one state machine of UI events, timer ticks and HTTP responses       *)
(* (Spec); the login page (LoginSpec); the middleware and its matcher      *)
(* (MiddlewareSpec); the history view with a many-paged backend            *)
(* (HistorySpec); the client-side search filters of the three views        *)
(* (FilterSpec); the auth store over any storage contents (AuthSpec) and   *)
(* from an empty storage (SessionSpec); page navigation through the        *)
(* middleware (NavSpec).                                                   *)
(*                                                                         *)
(* React is modelled as the code uses it: a component's state exists only  *)
(* while the component is mounted, a state setter called by a request that *)
(* an unmounted instance issued changes nothing, and an effect runs in the *)
(* same step as the render that changes one of its dependencies.           *)
(***************************************************************************)
EXTENDS Integers, Sequences, FiniteSets, TLC

\* ---------------------------------------------------------------- bounds
\* Requests that may be in flight at once (issued and not yet resolved).
MaxInFlight == 2
\* Largest page number the backend reports or the pager reaches.
MaxPage == 3
\* Longest text typed into the RFID input.
MaxTagLen == 2
\* Largest number of pages the backend reports to the pager of HistorySpec.
MaxPagerPages == 6

\* ------------------------------------------------------------- constants
null == "null"

NoTokenMsg == "No authentication token found"
AuthFailedMsg == "Authentication failed. Please login again."
AccessDeniedMsg == "Access denied. Admin privileges required."
UserNotFoundMsg == "User not found."
RfidConflictMsg == "RFID already assigned to another user."
NoRfidMsg == "User doesn't have an RFID assigned."
NetworkMsg == "Failed to fetch"
BadJsonMsg == "Unexpected end of JSON input"
ServerMsg == "server message"

\* `HTTP error! status: ${response.status}`
HttpErrorMsg(status) ==
    CASE status = 400 -> "HTTP error! status: 400"
      [] status = 401 -> "HTTP error! status: 401"
      [] status = 403 -> "HTTP error! status: 403"
      [] status = 404 -> "HTTP error! status: 404"
      [] status = 409 -> "HTTP error! status: 409"
      [] OTHER -> "HTTP error! status: 500"

ListViews == {"users", "active-parking", "parking-history"}
Views == {"overview"} \cup ListViews

\* ------------------------------------------------------------ input sets
\* Characters of a typed tag: a blank and a letter.
TagChars == {" ", "a"}
TagInputs == UNION {[1..n -> TagChars] : n \in 0..MaxTagLen}

\* User records of the users list: one user, without and with an RFID tag.
UserRec(rf) == [userID |-> "u1", rfid |-> rf]
NullUser == [userID |-> null, rfid |-> <<>>]
UserLists == {<<>>, <<UserRec(<<>>)>>, <<UserRec(<<"a">>)>>}
SessionLists == {<<>>, <<"s1">>, <<"s1", "s2">>}
RecordLists == {<<>>, <<"h1">>}

\* Non-2xx statuses the backend answers a list request / an RFID request with.
ListStatuses == {401, 403, 500}
MutationStatuses == {400, 401, 403, 404, 409, 500}

\* ------------------------------------------------------------ pure helpers
RemoveAt(s, i) == [j \in 1..(Len(s) - 1) |-> IF j < i THEN s[j] ELSE s[j + 1]]

RECURSIVE TrimStart(_)
TrimStart(s) == IF s # <<>> /\ Head(s) = " " THEN TrimStart(Tail(s)) ELSE s

RECURSIVE TrimEnd(_)
TrimEnd(s) ==
    IF s # <<>> /\ s[Len(s)] = " " THEN TrimEnd(SubSeq(s, 1, Len(s) - 1)) ELSE s

\* Fault: a trim that removes nothing.
TrimNone(s) == s

\* String.prototype.trim
Trim(s) == TrimEnd(TrimStart(s))

VARIABLES
    token,       \* localStorage 'token'
    storedUser,  \* localStorage 'user': null, the role of the stored record, or
                 \* "corrupt" for a value that is not JSON
    route,       \* the page shown: "dashboard", "login", or "error" once an
                 \* effect has thrown
    navPending,  \* router.push('/login') called, navigation not yet finished
    dash,        \* AdminDashboard state
    um,          \* UsersManagement state
    rm,          \* RfidModal state
    ap,          \* ActiveParking state
    ph,          \* ParkingHistory state
    intervals,   \* list views whose setInterval is live
    inflight,    \* requests of mounted components not yet resolved, in issue order
    orphaned,    \* requests not yet resolved whose component was unmounted
    last,        \* the last event and what it did (history variable)
    login,       \* Login page state
    edge,        \* the request the middleware last saw, and its answer
    env          \* the browser and the build: whether localStorage can be
                 \* accessed, the 'token' cookie, the copy of utils/auth.ts

vars == <<token, storedUser, route, navPending, dash, um, rm, ap, ph,
          intervals, inflight, orphaned, last, login, edge, env>>

\* ------------------------------------------------------------ auth store
\* A cookie or a header: absent, or present with a value (a sequence of
\* pieces, empty for the empty string).
Absent == [present |-> FALSE, value |-> <<>>]
Present(v) == [present |-> TRUE, value |-> v]

\* A browser whose localStorage can be accessed and that holds no cookie, and
\* the copy of utils/auth.ts whose reads are wrapped in try/catch.
HealthyEnv == [storage |-> "ok", cookie |-> Absent, authCopy |-> "guarded"]

\* localStorage.getItem / setItem / removeItem throw.
StorageThrows == env.storage = "throws"

\* The result of a call that did not return: it threw.
Thrown == "thrown"
StorageMsg == "The operation is insecure."

\* utils/auth.ts getStoredToken: the guarded copy catches what
\* localStorage.getItem throws and returns null, the other copy lets it
\* propagate.
getStoredToken ==
    IF StorageThrows
    THEN (IF env.authCopy = "guarded" THEN null ELSE Thrown)
    ELSE token

\* utils/auth.ts getStoredUser: userStr ? JSON.parse(userStr) : null, with the
\* same difference between the copies; JSON.parse throws on a value that is
\* not JSON.  The record is known by its role.
getStoredUser ==
    IF StorageThrows \/ storedUser = "corrupt"
    THEN (IF env.authCopy = "guarded" THEN null ELSE Thrown)
    ELSE storedUser

\* A token was read: the value is neither null nor an exception.
HasToken == getStoredToken \notin {null, Thrown}

\* The message of the exception a fetch function's catch block receives when
\* no token was read.
TokenErrorMsg == IF getStoredToken = Thrown THEN StorageMsg ELSE NoTokenMsg

\* isAuthenticated does not return: one of its two reads threw (only the copy
\* without try/catch).
isAuthenticatedThrows == getStoredToken = Thrown \/ getStoredUser = Thrown

\* Fault: a page-level check that tests the token alone.
isAuthenticatedTokenOnly == HasToken

\* utils/auth.ts isAuthenticated, when it returns:
\* !!(token && user && user.role === 'admin')
isAuthenticated == HasToken /\ getStoredUser = "admin"

\* -------------------------------------------------------------- requests
NoParams == [none |-> TRUE]

\* `Bearer ${auth}`: a header value is the sequence of its pieces.
Bearer(auth) == Present(<<"Bearer ", auth>>)

\* Fault: a request sent without the Authorization header.
ReqWithoutHeader(view, method, params) ==
    [view |-> view, method |-> method, authorization |-> Absent,
     params |-> params, modal |-> (view = "rfid"), superseded |-> FALSE]

\* A request as fetch() sends it: the Authorization header carries the token
\* read when the request is issued.  modal: the RfidModal instance that issued
\* it is still mounted; superseded: the response of a request issued later by
\* the same component has already been stored.
Req(view, method, params) ==
    [view |-> view, method |-> method, authorization |-> Bearer(getStoredToken),
     params |-> params, modal |-> (view = "rfid"), superseded |-> FALSE]

NoPagination == [total |-> 0, page |-> 0, limit |-> 0, pages |-> 0]

Resp(kind, status, envelope, data, pagination, message) ==
    [kind |-> kind, status |-> status, envelope |-> envelope, data |-> data,
     pagination |-> pagination, message |-> message]

\* fetch() rejected: no response at all.
NetworkFailure == Resp("network", 0, "", <<>>, NoPagination, null)
\* No request at all: the token check threw, into the same catch block.
NoTokenThrown == Resp("no-token", 0, "", <<>>, NoPagination, null)
\* A 2xx response whose body is not JSON: response.json() throws.
BadJson == Resp("badjson", 200, "", <<>>, NoPagination, null)
HttpFailure(status, message) ==
    Resp("http", status, "error", <<>>, NoPagination, message)
Envelope(envelope, data, pagination) ==
    Resp("ok", 200, envelope, data, pagination, null)

ListResponses(datas) ==
    {NetworkFailure, BadJson, Envelope("error", <<>>, NoPagination)}
      \cup {HttpFailure(s, null) : s \in ListStatuses}
      \cup {Envelope("success", d, NoPagination) : d \in datas}

\* Fault: every failure stored under the view's generic message.
ListErrorMsgGeneric(resp, failedMsg) == failedMsg

\* The message a list view's catch block stores for a failed refresh.
ListErrorMsg(resp, failedMsg) ==
    CASE resp.kind = "network" -> NetworkMsg
      [] resp.kind = "badjson" -> BadJsonMsg
      [] resp.kind = "http" /\ resp.status = 401 -> AuthFailedMsg
      [] resp.kind = "http" /\ resp.status = 403 -> AccessDeniedMsg
      [] resp.kind = "http" -> HttpErrorMsg(resp.status)
      [] OTHER -> failedMsg

IsSuccess(resp) == resp.kind = "ok" /\ resp.envelope = "success"

\* ---------------------------------------------------------------- events
\* The record kept in `last`: the handler that ran, the view it belongs to,
\* the response it handled (NoResp for a handler that handles none), whether
\* the component that issued the request was still mounted, whether the
\* response of a request issued later had already been stored, the callbacks
\* the handler invoked, in order, and the number of requests it issued.
NoResp == Resp("none", 0, "", <<>>, NoPagination, null)

Ev(op, view) ==
    [op |-> op, view |-> view, resp |-> NoResp, applied |-> FALSE,
     stale |-> FALSE, calls |-> <<>>, issued |-> 0]

\* Nothing aborts a request when its component is unmounted: it stays in the
\* network, and the state setters its continuation calls are no-ops.
\* `orphaned` counts those requests; InNetwork counts every request issued and
\* not yet resolved.
InNetwork == Len(inflight) + orphaned

OrphanModal(reqs) ==
    [i \in DOMAIN reqs |->
        IF reqs[i].view = "rfid" THEN [reqs[i] EXCEPT !.modal = FALSE]
        ELSE reqs[i]]

\* After the response of the request at position i of `view` was stored: the
\* requests the same instance issued before it now carry an older answer.
MarkSuperseded(reqs, i, view) ==
    [j \in DOMAIN reqs |->
        IF j < i /\ reqs[j].view = view
        THEN [reqs[j] EXCEPT !.superseded = TRUE]
        ELSE reqs[j]]

\* ------------------------------------------------------- component state
ClosedModal == [isOpen |-> FALSE, user |-> NullUser, mode |-> "add"]

UmInit ==
    [mounted |-> FALSE, users |-> <<>>, isLoading |-> TRUE, error |-> null,
     rfidModal |-> ClosedModal, searchTerm |-> <<>>, selectedRole |-> "all"]

RmInit == [mounted |-> FALSE, rfidValue |-> <<>>, isLoading |-> FALSE, error |-> null]

ApInit ==
    [mounted |-> FALSE, activeSessions |-> <<>>, isLoading |-> TRUE, error |-> null,
     searchTerm |-> <<>>, selectedPaymentStatus |-> "all"]

\* checked: the effect of the mount has run.
DashInit == [isLoading |-> TRUE, activeView |-> "overview", checked |-> FALSE]

\* Login: useState('') for email, password, error and roleError.
LoginInit ==
    [mounted |-> FALSE, email |-> "", password |-> "", loading |-> FALSE,
     error |-> "", roleError |-> ""]

\* No request has reached the middleware.
NoEdge == [request |-> "none", response |-> "none"]

\* ------------------------------------------------------ UsersManagement
\* fetchUsers up to its await: setError(null), then the token check, whose
\* throw lands in catch (setError) and finally (setIsLoading(false)).
FetchUsersStart(u) ==
    IF ~HasToken
    THEN [u EXCEPT !.error = TokenErrorMsg, !.isLoading = FALSE]
    ELSE [u EXCEPT !.error = null]

\* The request fetchUsers issues: none without a token.
FetchUsersReqs ==
    IF ~HasToken THEN <<>> ELSE <<Req("users", "GET", NoParams)>>

\* Fault: fetchUsers storing data.data without testing data.status.
FetchUsersDoneUnchecked(u, resp) ==
    IF resp.kind = "ok"
    THEN [u EXCEPT !.users = resp.data, !.isLoading = FALSE]
    ELSE [u EXCEPT !.error = ListErrorMsg(resp, "Failed to fetch users data"),
                   !.isLoading = FALSE]

\* fetchUsers after its await, for the instance that issued the request.
FetchUsersDone(u, resp) ==
    IF IsSuccess(resp)
    THEN [u EXCEPT !.users = resp.data, !.isLoading = FALSE]
    ELSE [u EXCEPT !.error = ListErrorMsg(resp, "Failed to fetch users data"),
                   !.isLoading = FALSE]

\* UsersManagement renders <RfidModal> only past its two early returns.
ModalRendered(u) == u.mounted /\ ~u.isLoading /\ u.error = null

\* The modal is on screen.
ModalDisplayed == rm.mounted /\ um.rfidModal.isOpen

\* RfidModal's state after a render of UsersManagement that took it from u0
\* to u1, `loc` being the modal's state left by the handler itself.  An
\* RfidModal that is not rendered is unmounted and its state is gone; one that
\* is rendered again starts from useState's initial values; the effect on
\* [isOpen, user] runs at mount and whenever either changes.
RmAfter(u0, u1, loc) ==
    IF ~ModalRendered(u1) THEN RmInit
    ELSE LET base == IF ModalRendered(u0) THEN loc
                     ELSE [RmInit EXCEPT !.mounted = TRUE]
             changed == \/ ~ModalRendered(u0)
                        \/ u0.rfidModal.isOpen # u1.rfidModal.isOpen
                        \/ u0.rfidModal.user # u1.rfidModal.user
         IN IF changed /\ u1.rfidModal.isOpen /\ u1.rfidModal.user # NullUser
            THEN [base EXCEPT !.rfidValue = u1.rfidModal.user.rfid,
                              !.error = null]
            ELSE base

\* The requests in flight after the same render: those of a modal instance
\* that was unmounted keep only the callbacks of its parent.
ReqsAfter(u0, u1, reqs) ==
    IF ModalRendered(u0) /\ ~ModalRendered(u1) THEN OrphanModal(reqs) ELSE reqs

\* Fault: a tick that is dropped while a users request is in flight.
UsersTickDeduplicated ==
    /\ "users" \in intervals
    /\ \A k \in DOMAIN inflight : inflight[k].view # "users"
    /\ InNetwork + Len(FetchUsersReqs) <= MaxInFlight
    /\ LET u1 == FetchUsersStart(um)
       IN /\ um' = u1
          /\ rm' = RmAfter(um, u1, rm)
          /\ inflight' = ReqsAfter(um, u1, inflight \o FetchUsersReqs)
          /\ last' = [Ev("tick", "users") EXCEPT !.issued = Len(FetchUsersReqs)]
    /\ UNCHANGED <<env, login, edge, token, storedUser, route, navPending, dash, ap, ph, intervals, orphaned>>

\* setInterval(fetchUsers, 30000) fires.
UsersTick ==
    /\ "users" \in intervals
    /\ InNetwork + Len(FetchUsersReqs) <= MaxInFlight
    /\ LET u1 == FetchUsersStart(um)
       IN /\ um' = u1
          /\ rm' = RmAfter(um, u1, rm)
          /\ inflight' = ReqsAfter(um, u1, inflight \o FetchUsersReqs)
          /\ last' = [Ev("tick", "users") EXCEPT !.issued = Len(FetchUsersReqs)]
    /\ UNCHANGED <<env, login, edge, token, storedUser, route, navPending, dash, ap, ph, intervals, orphaned>>

\* The Retry button of the error screen: onClick={fetchUsers}.
UsersRetry ==
    /\ um.mounted /\ ~um.isLoading /\ um.error # null
    /\ InNetwork + Len(FetchUsersReqs) <= MaxInFlight
    /\ LET u1 == FetchUsersStart(um)
       IN /\ um' = u1
          /\ rm' = RmAfter(um, u1, rm)
          /\ inflight' = ReqsAfter(um, u1, inflight \o FetchUsersReqs)
          /\ last' = [Ev("retry", "users") EXCEPT !.issued = Len(FetchUsersReqs)]
    /\ UNCHANGED <<env, login, edge, token, storedUser, route, navPending, dash, ap, ph, intervals, orphaned>>

\* The response of a users-list request arrives.
ResolveUsers(i, resp) ==
    /\ i \in DOMAIN inflight
    /\ inflight[i].view = "users"
    /\ LET r == inflight[i]
           u1 == FetchUsersDone(um, resp)
           marked == IF IsSuccess(resp)
                     THEN MarkSuperseded(inflight, i, "users") ELSE inflight
       IN /\ um' = u1
          /\ rm' = RmAfter(um, u1, rm)
          /\ inflight' = ReqsAfter(um, u1, RemoveAt(marked, i))
          /\ last' = [Ev("resolve", "users") EXCEPT
                        !.resp = resp,
                        !.applied = TRUE, !.stale = r.superseded]
    /\ UNCHANGED <<env, login, edge, token, storedUser, route, navPending, dash, ap, ph, intervals, orphaned>>

\* A row's "Add RFID" / "Edit RFID" button: handleRfidAction(user).  The
\* table is on screen and not covered by the modal's overlay.
handleRfidAction(user) ==
    /\ ModalRendered(um) /\ ~um.rfidModal.isOpen
    /\ \E k \in DOMAIN um.users : um.users[k] = user
    /\ LET u1 == [um EXCEPT !.rfidModal =
                    [isOpen |-> TRUE, user |-> user,
                     mode |-> IF user.rfid # <<>> THEN "edit" ELSE "add"]]
       IN /\ um' = u1
          /\ rm' = RmAfter(um, u1, rm)
    /\ last' = Ev("handleRfidAction", "users")
    /\ UNCHANGED <<env, login, edge, token, storedUser, route, navPending, dash, ap, ph, intervals,
                   inflight, orphaned>>

\* ------------------------------------------------------------- RfidModal
\* The modal's Cancel and X buttons (disabled while loading): onClose, which
\* is handleRfidModalClose.
handleRfidModalClose ==
    /\ ModalDisplayed /\ ~rm.isLoading
    /\ LET u1 == [um EXCEPT !.rfidModal = ClosedModal]
       IN /\ um' = u1
          /\ rm' = RmAfter(um, u1, rm)
    /\ last' = [Ev("cancel", "rfid") EXCEPT !.calls = <<"onClose">>]
    /\ UNCHANGED <<env, login, edge, token, storedUser, route, navPending, dash, ap, ph, intervals,
                   inflight, orphaned>>

\* Typing into the RFID input (disabled while loading).
setRfidValue(v) ==
    /\ ModalDisplayed /\ ~rm.isLoading
    /\ v # rm.rfidValue
    /\ rm' = [rm EXCEPT !.rfidValue = v]
    /\ last' = Ev("setRfidValue", "rfid")
    /\ UNCHANGED <<env, login, edge, token, storedUser, route, navPending, dash, um, ap, ph,
                   intervals, inflight, orphaned>>

\* The body of the POST: { userID, rfid: rfidValue.trim() }.
SubmitBody == [userID |-> um.rfidModal.user.userID, rfid |-> Trim(rm.rfidValue)]

\* The form's submit event (the submit button, or Enter in the input; both
\* are disabled while loading): handleSubmit up to its await.
handleSubmit ==
    /\ ModalDisplayed /\ ~rm.isLoading
    /\ IF um.rfidModal.user = NullUser \/ Trim(rm.rfidValue) = <<>>
       THEN /\ last' = Ev("handleSubmit", "rfid")
            /\ UNCHANGED <<env, login, edge, rm, inflight>>
       ELSE IF ~HasToken
       THEN /\ rm' = [rm EXCEPT !.isLoading = FALSE, !.error = TokenErrorMsg]
            /\ last' = [Ev("handleSubmit", "rfid") EXCEPT !.resp = NoTokenThrown]
            /\ UNCHANGED inflight
       ELSE /\ InNetwork < MaxInFlight
            /\ rm' = [rm EXCEPT !.isLoading = TRUE, !.error = null]
            /\ inflight' = Append(inflight, Req("rfid", "POST", SubmitBody))
            /\ last' = [Ev("handleSubmit", "rfid") EXCEPT !.issued = 1]
    /\ UNCHANGED <<env, login, edge, token, storedUser, route, navPending, dash, um, ap, ph, intervals, orphaned>>

\* The "Remove RFID" button, rendered in edit mode for a user with a tag and
\* disabled while loading: handleRemoveRfid up to its await.
handleRemoveRfid ==
    /\ ModalDisplayed /\ ~rm.isLoading
    /\ um.rfidModal.mode = "edit" /\ um.rfidModal.user.rfid # <<>>
    /\ IF um.rfidModal.user = NullUser
       THEN /\ last' = Ev("handleRemoveRfid", "rfid")
            /\ UNCHANGED <<env, login, edge, rm, inflight>>
       ELSE IF ~HasToken
       THEN /\ rm' = [rm EXCEPT !.isLoading = FALSE, !.error = TokenErrorMsg]
            /\ last' = [Ev("handleRemoveRfid", "rfid") EXCEPT !.resp = NoTokenThrown]
            /\ UNCHANGED inflight
       ELSE /\ InNetwork < MaxInFlight
            /\ rm' = [rm EXCEPT !.isLoading = TRUE, !.error = null]
            /\ inflight' = Append(inflight,
                   Req("rfid", "DELETE",
                       [userID |-> um.rfidModal.user.userID, rfid |-> <<>>]))
            /\ last' = [Ev("handleRemoveRfid", "rfid") EXCEPT !.issued = 1]
    /\ UNCHANGED <<env, login, edge, token, storedUser, route, navPending, dash, um, ap, ph, intervals, orphaned>>

RfidResponses ==
    {NetworkFailure, Envelope("success", <<>>, NoPagination),
     Envelope("error", <<>>, NoPagination)}
      \cup {HttpFailure(s, m) : s \in MutationStatuses, m \in {null, ServerMsg}}

\* The message handleSubmit (POST) / handleRemoveRfid (DELETE) throws for a
\* response that is not ok, or that fetch's rejection carries.
RfidErrorMsg(method, resp) ==
    CASE resp.kind = "network" -> NetworkMsg
      [] resp.status = 401 -> AuthFailedMsg
      [] resp.status = 403 -> AccessDeniedMsg
      [] resp.status = 404 -> UserNotFoundMsg
      [] resp.status = 409 /\ method = "POST" -> RfidConflictMsg
      [] resp.status = 400 /\ method = "DELETE" -> NoRfidMsg
      [] OTHER -> IF resp.message # null THEN resp.message
                  ELSE HttpErrorMsg(resp.status)

\* response.ok: the only test handleSubmit and handleRemoveRfid make.
ResponseOk(resp) == resp.kind = "ok"

\* Fault: the modal closed before the refresh callback is invoked.
RfidCallsCloseFirst(resp) ==
    IF ResponseOk(resp) THEN <<"onClose", "onSuccess">> ELSE <<>>

\* The callbacks a resolved RFID request invokes, in the order of the code.
RfidCalls(resp) == IF ResponseOk(resp) THEN <<"onSuccess", "onClose">> ELSE <<>>

\* handleRfidSuccess, then handleRfidModalClose, on the UsersManagement
\* instance the callbacks belong to.
RfidSuccessParent(u) == [FetchUsersStart(u) EXCEPT !.rfidModal = ClosedModal]

\* The response of an RFID request arrives: handleSubmit / handleRemoveRfid
\* after the await.  onSuccess and onClose are closures of the parent (they run
\* even if this modal instance was unmounted meanwhile); setError and
\* setIsLoading are the modal instance's own.
ResolveRfid(i, resp) ==
    /\ i \in DOMAIN inflight
    /\ inflight[i].view = "rfid"
    /\ LET r == inflight[i]
           calls == RfidCalls(resp)
           refresh == IF "onSuccess" \in {calls[k] : k \in DOMAIN calls}
                      THEN FetchUsersReqs ELSE <<>>
           u1 == IF calls # <<>> THEN RfidSuccessParent(um) ELSE um
           loc == IF ~r.modal THEN rm
                  ELSE IF ResponseOk(resp) THEN [rm EXCEPT !.isLoading = FALSE]
                  ELSE [rm EXCEPT !.error = RfidErrorMsg(r.method, resp),
                                  !.isLoading = FALSE]
       IN /\ um' = u1
          /\ rm' = RmAfter(um, u1, loc)
          /\ inflight' = ReqsAfter(um, u1, RemoveAt(inflight, i) \o refresh)
          /\ last' = [Ev("resolve", "rfid") EXCEPT
                        !.resp = resp,
                        !.applied = r.modal, !.calls = calls,
                        !.issued = Len(refresh)]
    /\ UNCHANGED <<env, login, edge, token, storedUser, route, navPending, dash, ap, ph, intervals, orphaned>>

\* --------------------------------------------------------- ActiveParking
FetchActiveStart(a) ==
    IF ~HasToken
    THEN [a EXCEPT !.error = TokenErrorMsg, !.isLoading = FALSE]
    ELSE [a EXCEPT !.error = null]

FetchActiveReqs ==
    IF ~HasToken THEN <<>>
    ELSE <<Req("active-parking", "GET", NoParams)>>

\* Fault: a successful response replaces the sessions only while none are
\* shown, so the first response to arrive wins.
FetchActiveDoneKeepsShown(a, resp) ==
    IF IsSuccess(resp)
    THEN [a EXCEPT !.activeSessions =
                       IF a.activeSessions = <<>> THEN resp.data
                       ELSE a.activeSessions,
                   !.isLoading = FALSE]
    ELSE [a EXCEPT !.error = ListErrorMsg(resp, "Failed to fetch active parking sessions"),
                   !.isLoading = FALSE]

\* fetchActiveParkingSessions after its await.
FetchActiveDone(a, resp) ==
    IF IsSuccess(resp)
    THEN [a EXCEPT !.activeSessions = resp.data, !.isLoading = FALSE]
    ELSE [a EXCEPT !.error = ListErrorMsg(resp, "Failed to fetch active parking sessions"),
                   !.isLoading = FALSE]

\* Fault: an interval that is never cleared, firing whether or not the view
\* is mounted.
ActiveTickNeverCleared ==
    /\ route = "dashboard" /\ ~dash.isLoading
    /\ InNetwork + Len(FetchActiveReqs) <= MaxInFlight
    /\ ap' = FetchActiveStart(ap)
    /\ inflight' = inflight \o FetchActiveReqs
    /\ last' = [Ev("tick", "active-parking") EXCEPT !.issued = Len(FetchActiveReqs)]
    /\ UNCHANGED <<env, login, edge, token, storedUser, route, navPending, dash, um, rm, ph, intervals, orphaned>>

\* setInterval(fetchActiveParkingSessions, 30000) fires.
ActiveTick ==
    /\ "active-parking" \in intervals
    /\ InNetwork + Len(FetchActiveReqs) <= MaxInFlight
    /\ ap' = FetchActiveStart(ap)
    /\ inflight' = inflight \o FetchActiveReqs
    /\ last' = [Ev("tick", "active-parking") EXCEPT !.issued = Len(FetchActiveReqs)]
    /\ UNCHANGED <<env, login, edge, token, storedUser, route, navPending, dash, um, rm, ph, intervals, orphaned>>

\* The Retry button of the error screen: onClick={fetchActiveParkingSessions}.
ActiveRetry ==
    /\ ap.mounted /\ ~ap.isLoading /\ ap.error # null
    /\ InNetwork + Len(FetchActiveReqs) <= MaxInFlight
    /\ ap' = FetchActiveStart(ap)
    /\ inflight' = inflight \o FetchActiveReqs
    /\ last' = [Ev("retry", "active-parking") EXCEPT !.issued = Len(FetchActiveReqs)]
    /\ UNCHANGED <<env, login, edge, token, storedUser, route, navPending, dash, um, rm, ph, intervals, orphaned>>

\* The response of an active-sessions request arrives.
ResolveActive(i, resp) ==
    /\ i \in DOMAIN inflight
    /\ inflight[i].view = "active-parking"
    /\ LET r == inflight[i]
           marked == IF IsSuccess(resp)
                     THEN MarkSuperseded(inflight, i, "active-parking") ELSE inflight
       IN /\ ap' = FetchActiveDone(ap, resp)
          /\ inflight' = RemoveAt(marked, i)
          /\ last' = [Ev("resolve", "active-parking") EXCEPT
                        !.resp = resp,
                        !.applied = TRUE, !.stale = r.superseded]
    /\ UNCHANGED <<env, login, edge, token, storedUser, route, navPending, dash, um, rm, ph, intervals, orphaned>>

\* -------------------------------------------------------- ParkingHistory
\* useState<PaginationInfo>({ total: 0, page: 1, limit: 20, pages: 1 })
DefaultLimit == 20
InitialPagination == [total |-> 0, page |-> 1, limit |-> DefaultLimit, pages |-> 1]

PhInit ==
    [mounted |-> FALSE, historyRecords |-> <<>>, pagination |-> InitialPagination,
     isLoading |-> TRUE, error |-> null, searchTerm |-> <<>>,
     selectedPaymentStatus |-> "all", startDate |-> "", endDate |-> "",
     sortBy |-> "in_date", sortOrder |-> "desc"]

\* Values of the filter controls; a text is the sequence of its characters.
SearchTerms == {<<>>, <<"b">>}
PaymentStatuses == {"all", "paid"}
Dates == {"", "2025-01-01"}
SortFields == {"in_date", "total_billing"}
SortOrders == {"desc", "asc"}

\* The pagination objects the backend answers with.
Paginations ==
    {[total |-> 45, page |-> p, limit |-> DefaultLimit, pages |-> g] :
        p \in 1..MaxPage, g \in 1..MaxPage}

HistoryResponses ==
    {NetworkFailure, BadJson, Envelope("error", <<>>, NoPagination)}
      \cup {HttpFailure(s, null) : s \in ListStatuses}
      \cup {Envelope("success", d, pg) : d \in RecordLists, pg \in Paginations}

\* new Date(value).toISOString() of a date input's value.
ToISOString(d) ==
    CASE d = "2025-01-01" -> "2025-01-01T00:00:00.000Z"
      [] OTHER -> "Invalid Date"

\* The query string of the history request: status, startDate and endDate
\* are appended only when set.
HistoryParams(p) ==
    [limit |-> p.pagination.limit, page |-> p.pagination.page,
     sortBy |-> p.sortBy, sortOrder |-> p.sortOrder,
     status |-> IF p.selectedPaymentStatus # "all"
                THEN p.selectedPaymentStatus ELSE null,
     startDate |-> IF p.startDate # "" THEN ToISOString(p.startDate) ELSE null,
     endDate |-> IF p.endDate # "" THEN ToISOString(p.endDate) ELSE null]

\* Fault: a fetch that, like fetchUsers, does not set loading when it starts.
FetchHistoryStartKeepsLoading(p) ==
    IF ~HasToken
    THEN [p EXCEPT !.isLoading = FALSE, !.error = TokenErrorMsg]
    ELSE [p EXCEPT !.error = null]

\* fetchParkingHistory up to its await.
FetchHistoryStart(p) ==
    IF ~HasToken
    THEN [p EXCEPT !.isLoading = FALSE, !.error = TokenErrorMsg]
    ELSE [p EXCEPT !.isLoading = TRUE, !.error = null]

\* Fault: a request that carries the initial page and filters.
FetchHistoryReqsInitial(p) ==
    IF ~HasToken THEN <<>>
    ELSE <<Req("parking-history", "GET", HistoryParams(PhInit))>>

\* The request fetchParkingHistory issues: none without a token.
FetchHistoryReqs(p) ==
    IF ~HasToken THEN <<>>
    ELSE <<Req("parking-history", "GET", HistoryParams(p))>>

\* Fault: a dependency list that names the pagination object as a whole.
HistoryDepsWholePagination(p) ==
    <<p.pagination, p.selectedPaymentStatus, p.startDate, p.endDate, p.sortBy,
      p.sortOrder>>

\* Fault: a dependency list that names the page and the limit only.
HistoryDepsPageOnly(p) == <<p.pagination.page, p.pagination.limit>>

\* The dependency list of useCallback(fetchParkingHistory): the effect on
\* [fetchParkingHistory] runs after a render in which one of these changed.
HistoryDeps(p) ==
    <<p.pagination.page, p.pagination.limit, p.selectedPaymentStatus,
      p.startDate, p.endDate, p.sortBy, p.sortOrder>>

\* The state after the render that takes ParkingHistory from p0 to p1 and
\* after the effect that render schedules, and the request that effect issues.
HistoryRender(p0, p1) ==
    IF HistoryDeps(p0) # HistoryDeps(p1) THEN FetchHistoryStart(p1) ELSE p1

HistoryEffectReqs(p0, p1) ==
    IF HistoryDeps(p0) # HistoryDeps(p1) THEN FetchHistoryReqs(p1) ELSE <<>>

\* The filters, the table and the pager are on screen.
HistoryShown == ph.mounted /\ ~ph.isLoading /\ ph.error = null

\* A handler of the history screen took the state to p1.
HistoryUpdate(op, p1) ==
    /\ HistoryShown
    /\ InNetwork + Len(HistoryEffectReqs(ph, p1)) <= MaxInFlight
    /\ ph' = HistoryRender(ph, p1)
    /\ inflight' = inflight \o HistoryEffectReqs(ph, p1)
    /\ last' = [Ev(op, "parking-history") EXCEPT
                  !.issued = Len(HistoryEffectReqs(ph, p1))]
    /\ UNCHANGED <<env, login, edge, token, storedUser, route, navPending, dash, um, rm, ap, intervals, orphaned>>

setSearchTerm(v) ==
    /\ v # ph.searchTerm
    /\ HistoryUpdate("setSearchTerm", [ph EXCEPT !.searchTerm = v])

setSelectedPaymentStatus(v) ==
    /\ v # ph.selectedPaymentStatus
    /\ HistoryUpdate("setSelectedPaymentStatus", [ph EXCEPT !.selectedPaymentStatus = v])

setStartDate(v) ==
    /\ v # ph.startDate
    /\ HistoryUpdate("setStartDate", [ph EXCEPT !.startDate = v])

setEndDate(v) ==
    /\ v # ph.endDate
    /\ HistoryUpdate("setEndDate", [ph EXCEPT !.endDate = v])

setSortBy(v) ==
    /\ v # ph.sortBy
    /\ HistoryUpdate("setSortBy", [ph EXCEPT !.sortBy = v])

setSortOrder(v) ==
    /\ v # ph.sortOrder
    /\ HistoryUpdate("setSortOrder", [ph EXCEPT !.sortOrder = v])

\* Fault: Apply Filters leaving the page where it is.
ApplyFiltersKeepsPage(p) == p

\* setPagination(prev => ({ ...prev, page: 1 }))
ApplyFiltersState(p) == [p EXCEPT !.pagination.page = 1]

\* The "Apply Filters" button.
handleApplyFilters == HistoryUpdate("handleApplyFilters", ApplyFiltersState(ph))

ClearFiltersState(p) ==
    [p EXCEPT !.searchTerm = <<>>, !.selectedPaymentStatus = "all",
              !.startDate = "", !.endDate = "", !.sortBy = "in_date",
              !.sortOrder = "desc", !.pagination.page = 1]

\* The "Clear Filters" button.
clearFilters == HistoryUpdate("clearFilters", ClearFiltersState(ph))

Min(a, b) == IF a < b THEN a ELSE b
Max(a, b) == IF a > b THEN a ELSE b

\* Fault: a window of numbered buttons that is not clamped to [1, pages].
PageButtonsUnclamped(pg) ==
    {pg.page - 2 + i : i \in 0..(Min(5, pg.pages) - 1)}

\* The page numbers of the pager's numbered buttons.
PageButtons(pg) ==
    {Max(1, Min(pg.page - 2, pg.pages - 4)) + i : i \in 0..(Min(5, pg.pages) - 1)}

\* The pages the pager's enabled buttons lead to: Previous (disabled at page
\* 1), the numbered buttons, Next (disabled at the last page).  The pager is
\* rendered only when pages > 1.
PagerTargets(pg) ==
    IF pg.pages > 1
    THEN (IF pg.page = 1 THEN {} ELSE {pg.page - 1})
           \cup PageButtons(pg)
           \cup (IF pg.page = pg.pages THEN {} ELSE {pg.page + 1})
    ELSE {}

\* Fault: a range that starts at the last record of the page before.
FooterOffByOne(pg) ==
    <<(pg.page - 1) * pg.limit, Min(pg.page * pg.limit, pg.total), pg.total>>

\* "Showing {first} to {last} of {total} results"
Footer(pg) ==
    <<(pg.page - 1) * pg.limit + 1, Min(pg.page * pg.limit, pg.total), pg.total>>

\* What the footer above the pager's buttons shows; the pager is rendered
\* only when pages > 1.
HistoryFooter ==
    IF HistoryShown /\ ph.pagination.pages > 1 THEN Footer(ph.pagination)
    ELSE <<>>

\* handlePageChange(newPage), from a button of the pager.
handlePageChange(newPage) ==
    /\ newPage \in PagerTargets(ph.pagination)
    /\ HistoryUpdate("handlePageChange", [ph EXCEPT !.pagination.page = newPage])

\* The Retry button of the error screen: onClick={fetchParkingHistory}.
HistoryRetry ==
    /\ ph.mounted /\ ~ph.isLoading /\ ph.error # null
    /\ InNetwork + Len(FetchHistoryReqs(ph)) <= MaxInFlight
    /\ ph' = FetchHistoryStart(ph)
    /\ inflight' = inflight \o FetchHistoryReqs(ph)
    /\ last' = [Ev("retry", "parking-history") EXCEPT !.issued = Len(FetchHistoryReqs(ph))]
    /\ UNCHANGED <<env, login, edge, token, storedUser, route, navPending, dash, um, rm, ap, intervals, orphaned>>

\* Fault: setIsLoading(false) in the try block instead of finally.
FetchHistoryDoneNoFinally(p, resp) ==
    IF IsSuccess(resp)
    THEN [p EXCEPT !.historyRecords = resp.data, !.pagination = resp.pagination,
                   !.isLoading = FALSE]
    ELSE [p EXCEPT !.error = ListErrorMsg(resp, "Failed to fetch parking history")]

\* fetchParkingHistory after its await, for the instance that issued it.
FetchHistoryDone(p, resp) ==
    IF IsSuccess(resp)
    THEN [p EXCEPT !.historyRecords = resp.data, !.pagination = resp.pagination,
                   !.isLoading = FALSE]
    ELSE [p EXCEPT !.error = ListErrorMsg(resp, "Failed to fetch parking history"),
                   !.isLoading = FALSE]

\* The response of a history request arrives; storing a pagination whose page
\* or limit differs from the current one re-runs the effect.
ResolveHistory(i, resp) ==
    /\ i \in DOMAIN inflight
    /\ inflight[i].view = "parking-history"
    /\ LET r == inflight[i]
           p1 == FetchHistoryDone(ph, resp)
           marked == IF IsSuccess(resp)
                     THEN MarkSuperseded(inflight, i, "parking-history") ELSE inflight
       IN /\ ph' = HistoryRender(ph, p1)
          /\ inflight' = RemoveAt(marked, i) \o HistoryEffectReqs(ph, p1)
          /\ last' = [Ev("resolve", "parking-history") EXCEPT
                        !.resp = resp,
                        !.applied = TRUE, !.stale = r.superseded,
                        !.issued = Len(HistoryEffectReqs(ph, p1))]
    /\ UNCHANGED <<env, login, edge, token, storedUser, route, navPending, dash, um, rm, ap, intervals, orphaned>>

\* ------------------------------------------------------------ middleware
\* A path is the sequence of its pieces: "/dashboardx" is <<"/", "dashboard",
\* "x">>, so that String.startsWith is the prefix relation on sequences.
StartsWith(s, p) == Len(p) <= Len(s) /\ SubSeq(s, 1, Len(p)) = p

DashboardPath == <<"/", "dashboard">>
LoginPath == <<"/", "login">>
AdminPath == <<"/", "admin">>

Paths ==
    {<<"/">>, LoginPath, DashboardPath, DashboardPath \o <<"/", "users">>,
     DashboardPath \o <<"x">>, AdminPath, AdminPath \o <<"/", "users">>,
     AdminPath \o <<"x">>}

Cookies == {Absent, Present(<<>>), Present(<<"tok">>)}
AuthHeaders ==
    {Absent, Present(<<"Bearer ">>), Present(<<"Bearer ", "tok">>),
     Present(<<"tok">>)}

Requests ==
    [pathname : Paths, cookie : Cookies, authorization : AuthHeaders]

\* String.replace('Bearer ', ''): the first occurrence is removed.
RECURSIVE ReplaceBearer(_)
ReplaceBearer(v) ==
    IF v = <<>> THEN <<>>
    ELSE IF Head(v) = "Bearer " THEN Tail(v)
    ELSE <<Head(v)>> \o ReplaceBearer(Tail(v))

\* request.cookies.get('token')?.value || request.headers.get('Authorization')
\* ?.replace('Bearer ', ''): <<>> stands for every falsy result.
ProtectedToken(req) ==
    IF req.cookie.present /\ req.cookie.value # <<>> THEN req.cookie.value
    ELSE IF req.authorization.present THEN ReplaceBearer(req.authorization.value)
    ELSE <<>>

protectedPaths == {DashboardPath}

isProtectedPath(req) == \E path \in protectedPaths : StartsWith(req.pathname, path)

\* The function middleware(request).
middleware(req) ==
    IF isProtectedPath(req) /\ ProtectedToken(req) = <<>>
    THEN "redirect:/login"
    ELSE IF /\ req.pathname = LoginPath
            /\ req.cookie.present /\ req.cookie.value # <<>>
    THEN "redirect:/dashboard"
    ELSE "next"

\* config.matcher: '/admin/:path*' and '/login'.
MatcherMatches(pathname) ==
    \/ pathname = AdminPath
    \/ StartsWith(pathname, AdminPath \o <<"/">>)
    \/ pathname = LoginPath

\* What the edge answers: the middleware runs only for a path the matcher
\* matches; every other request passes through.
EdgeAnswer(req) ==
    IF MatcherMatches(req.pathname) THEN middleware(req) ELSE "next"

\* The request the browser sends when it navigates to `pathname`: it carries
\* the cookies of the origin and no Authorization header.
NavRequest(pathname) ==
    [pathname |-> pathname, cookie |-> env.cookie, authorization |-> Absent]

\* -------------------------------------------------------- AdminDashboard
\* The effect of AdminDashboard's mount: redirectIfNotAuthenticated(router),
\* then setUser and setIsLoading(false).  An exception that leaves the effect
\* takes the page down: the framework's error screen replaces it.
DashboardMount ==
    /\ route = "dashboard" /\ ~dash.checked
    /\ IF isAuthenticatedThrows
       THEN /\ route' = "error"
            /\ dash' = [dash EXCEPT !.checked = TRUE]
            /\ UNCHANGED navPending
       ELSE IF isAuthenticated
       THEN /\ dash' = [dash EXCEPT !.isLoading = FALSE, !.checked = TRUE]
            /\ UNCHANGED <<route, navPending>>
       ELSE /\ navPending' = TRUE
            /\ dash' = [dash EXCEPT !.checked = TRUE]
            /\ UNCHANGED route
    /\ last' = Ev("dashboardMount", "overview")
    /\ UNCHANGED <<env, login, edge, token, storedUser, um, rm, ap, ph, intervals, inflight,
                   orphaned>>

\* The requests the mount effect of a tab's component issues.
MountReqs(view) ==
    CASE view = "users" -> FetchUsersReqs
      [] view = "active-parking" -> FetchActiveReqs
      [] view = "parking-history" -> FetchHistoryReqs(PhInit)
      [] OTHER -> <<>>

\* Fault: the view that is left keeps its interval (no clearInterval at unmount).
setActiveViewLeavesInterval(view) ==
    /\ route = "dashboard" /\ ~dash.isLoading
    /\ view # dash.activeView
    /\ InNetwork + Len(MountReqs(view)) <= MaxInFlight
    /\ inflight' = MountReqs(view)
    /\ orphaned' = orphaned + Len(inflight)
    /\ dash' = [dash EXCEPT !.activeView = view]
    /\ um' = IF view = "users"
             THEN FetchUsersStart([UmInit EXCEPT !.mounted = TRUE]) ELSE UmInit
    /\ rm' = RmInit
    /\ ap' = IF view = "active-parking"
             THEN FetchActiveStart([ApInit EXCEPT !.mounted = TRUE]) ELSE ApInit
    /\ ph' = IF view = "parking-history"
             THEN FetchHistoryStart([PhInit EXCEPT !.mounted = TRUE]) ELSE PhInit
    /\ intervals' = intervals \cup ({view} \cap {"users", "active-parking"})
    /\ last' = [Ev("setActiveView", view) EXCEPT !.issued = Len(MountReqs(view))]
    /\ UNCHANGED <<env, login, edge, token, storedUser, route, navPending>>

\* A navigation button or quick action: setActiveView(view).  renderContent
\* unmounts the component of the old tab (its cleanup clears the interval) and
\* mounts the new one, whose mount effect fetches and sets the interval.
setActiveView(view) ==
    /\ route = "dashboard" /\ ~dash.isLoading
    /\ view # dash.activeView
    /\ InNetwork + Len(MountReqs(view)) <= MaxInFlight
    /\ inflight' = MountReqs(view)
    /\ orphaned' = orphaned + Len(inflight)
    /\ dash' = [dash EXCEPT !.activeView = view]
    /\ um' = IF view = "users"
             THEN FetchUsersStart([UmInit EXCEPT !.mounted = TRUE]) ELSE UmInit
    /\ rm' = RmInit
    /\ ap' = IF view = "active-parking"
             THEN FetchActiveStart([ApInit EXCEPT !.mounted = TRUE]) ELSE ApInit
    /\ ph' = IF view = "parking-history"
             THEN FetchHistoryStart([PhInit EXCEPT !.mounted = TRUE]) ELSE PhInit
    /\ intervals' = {view} \cap {"users", "active-parking"}
    /\ last' = [Ev("setActiveView", view) EXCEPT !.issued = Len(MountReqs(view))]
    /\ UNCHANGED <<env, login, edge, token, storedUser, route, navPending>>

\* utils/auth.ts removeStoredAuth returns: always in the guarded copy, in the
\* other one only if localStorage.removeItem does not throw.
removeStoredAuthReturns == ~StorageThrows \/ env.authCopy = "guarded"

\* Fault: a logout that removes the token and leaves the user record.
handleLogoutKeepsUser ==
    /\ route = "dashboard" /\ ~dash.isLoading /\ ~navPending
    /\ token' = IF StorageThrows THEN token ELSE null
    /\ navPending' = removeStoredAuthReturns
    /\ last' = Ev("handleLogout", "overview")
    /\ UNCHANGED <<env, storedUser, login, edge, route, dash, um, rm, ap, ph, intervals,
                   inflight, orphaned>>

\* The Logout button: removeStoredAuth(), then router.push('/login'), which
\* returns before the navigation has happened.
handleLogout ==
    /\ route = "dashboard" /\ ~dash.isLoading /\ ~navPending
    /\ token' = IF StorageThrows THEN token ELSE null
    /\ storedUser' = IF StorageThrows THEN storedUser ELSE null
    /\ navPending' = removeStoredAuthReturns
    /\ last' = Ev("handleLogout", "overview")
    /\ UNCHANGED <<env, login, edge, route, dash, um, rm, ap, ph, intervals, inflight, orphaned>>

\* The navigation to /login completes, the edge letting the request for
\* /login pass: the dashboard and the view below it are unmounted.
NavigationCompletes ==
    /\ navPending /\ route = "dashboard"
    /\ EdgeAnswer(NavRequest(LoginPath)) = "next"
    /\ route' = "login"
    /\ navPending' = FALSE
    /\ dash' = DashInit
    /\ um' = UmInit /\ rm' = RmInit /\ ap' = ApInit /\ ph' = PhInit
    /\ intervals' = {}
    /\ inflight' = <<>>
    /\ orphaned' = orphaned + Len(inflight)
    /\ login' = [LoginInit EXCEPT !.mounted = TRUE]
    /\ last' = Ev("navigate", "login")
    /\ UNCHANGED <<env, edge, token, storedUser>>

\* The edge answers the navigation to /login with a redirect to /dashboard,
\* the page the browser is on: the router either keeps the mounted
\* AdminDashboard (its mount effect does not run again) or mounts it anew.
NavigationRedirected ==
    /\ navPending /\ route = "dashboard"
    /\ EdgeAnswer(NavRequest(LoginPath)) = "redirect:/dashboard"
    /\ navPending' = FALSE
    /\ \/ UNCHANGED <<dash, um, rm, ap, ph, intervals, inflight, orphaned>>
       \/ /\ dash' = DashInit
          /\ um' = UmInit /\ rm' = RmInit /\ ap' = ApInit /\ ph' = PhInit
          /\ intervals' = {}
          /\ inflight' = <<>>
          /\ orphaned' = orphaned + Len(inflight)
    /\ last' = Ev("navigate", "dashboard")
    /\ UNCHANGED <<env, login, edge, token, storedUser, route>>

\* The response of a request arrives whose component is gone: its state
\* setters change nothing.
ResolveOrphaned ==
    /\ orphaned > 0
    /\ orphaned' = orphaned - 1
    /\ last' = Ev("resolve", "unmounted")
    /\ UNCHANGED <<env, login, edge, token, storedUser, route, navPending, dash, um, rm, ap, ph,
                   intervals, inflight>>

\* --------------------------------------------------------- specification
Init ==
    /\ token \in {null, "tok"}
    /\ storedUser \in {null, "user", "admin"}
    /\ route = "dashboard"
    /\ navPending = FALSE
    /\ dash = DashInit
    /\ um = UmInit /\ rm = RmInit /\ ap = ApInit /\ ph = PhInit
    /\ intervals = {}
    /\ inflight = <<>>
    /\ orphaned = 0
    /\ last = Ev("init", "")
    /\ login = LoginInit
    /\ edge = NoEdge
    /\ env = HealthyEnv

Next ==
    \/ DashboardMount
    \/ \E view \in Views : setActiveView(view)
    \/ handleLogout
    \/ NavigationCompletes
    \/ UsersTick
    \/ UsersRetry
    \/ \E i \in 1..MaxInFlight, resp \in ListResponses(UserLists) : ResolveUsers(i, resp)
    \/ \E user \in {UserRec(<<>>), UserRec(<<"a">>)} : handleRfidAction(user)
    \/ handleRfidModalClose
    \/ \E v \in TagInputs : setRfidValue(v)
    \/ handleSubmit
    \/ handleRemoveRfid
    \/ \E i \in 1..MaxInFlight, resp \in RfidResponses : ResolveRfid(i, resp)
    \/ ActiveTick
    \/ ActiveRetry
    \/ \E i \in 1..MaxInFlight, resp \in ListResponses(SessionLists) : ResolveActive(i, resp)
    \/ \E v \in SearchTerms : setSearchTerm(v)
    \/ \E v \in PaymentStatuses : setSelectedPaymentStatus(v)
    \/ \E v \in Dates : setStartDate(v)
    \/ \E v \in Dates : setEndDate(v)
    \/ \E v \in SortFields : setSortBy(v)
    \/ \E v \in SortOrders : setSortOrder(v)
    \/ handleApplyFilters
    \/ clearFilters
    \/ \E n \in 1..MaxPage : handlePageChange(n)
    \/ HistoryRetry
    \/ \E i \in 1..MaxInFlight, resp \in HistoryResponses : ResolveHistory(i, resp)
    \/ ResolveOrphaned

Spec == Init /\ [][Next]_vars

\* ------------------------------------------------------------ Login page
RequiredMsg == "Email and password are required"
LoginFailedMsg == "Login failed."
LoginNetworkMsg == "Network error. Please try again."
RoleDeniedMsg == "Access denied. You are not authorized as admin."

\* What is typed into the email and password inputs.
Emails == {"", "e"}
Passwords == {"", "p"}
\* loginData.data.token of a successful response.
IssuedToken == "tok"

\* The email input's onChange; the input is disabled while loading.
setEmail(v) ==
    /\ route = "login" /\ login.mounted /\ ~login.loading
    /\ v # login.email
    /\ login' = [login EXCEPT !.email = v]
    /\ last' = Ev("setEmail", "login")
    /\ UNCHANGED <<env, token, storedUser, route, navPending, dash, um, rm, ap, ph,
                   intervals, inflight, orphaned, edge>>

\* The password input's onChange.
setPassword(v) ==
    /\ route = "login" /\ login.mounted /\ ~login.loading
    /\ v # login.password
    /\ login' = [login EXCEPT !.password = v]
    /\ last' = Ev("setPassword", "login")
    /\ UNCHANGED <<env, token, storedUser, route, navPending, dash, um, rm, ap, ph,
                   intervals, inflight, orphaned, edge>>

\* The request Login's handleSubmit issues: a POST whose only header is
\* Content-Type.
\* modal: the Login instance that issued it is still mounted.
LoginReq ==
    [Req("login", "POST", [email |-> login.email, password |-> login.password])
        EXCEPT !.authorization = Absent, !.modal = TRUE]

\* Login's handleSubmit up to its await (the submit button is disabled while
\* loading): the flags are reset, and empty fields end the handler at once.
loginSubmit ==
    /\ route = "login" /\ login.mounted /\ ~login.loading
    /\ LET empty == login.email = "" \/ login.password = ""
       IN /\ ~empty => InNetwork + 1 <= MaxInFlight
          /\ login' = IF empty
                      THEN [login EXCEPT !.error = RequiredMsg, !.roleError = "",
                                         !.loading = FALSE]
                      ELSE [login EXCEPT !.error = "", !.roleError = "",
                                         !.loading = TRUE]
          /\ inflight' = IF empty THEN inflight ELSE Append(inflight, LoginReq)
          /\ last' = [Ev("loginSubmit", "login") EXCEPT
                        !.issued = IF empty THEN 0 ELSE 1]
    /\ UNCHANGED <<env, token, storedUser, route, navPending, dash, um, rm, ap, ph,
                   intervals, orphaned, edge>>

\* The answers of POST /api/users/login.  data holds the role of data.user, or
\* nothing when the body carries no data.user; "badjson" is a body res.json()
\* cannot parse, whatever the status.
LoginResponses ==
    {NetworkFailure, BadJson, Resp("badjson", 500, "", <<>>, NoPagination, null),
     Envelope("error", <<>>, NoPagination),
     Resp("ok", 200, "error", <<>>, NoPagination, ServerMsg),
     Resp("http", 500, "success", <<"admin">>, NoPagination, null)}
      \cup {HttpFailure(s, m) : s \in {400, 401}, m \in {null, ServerMsg}}
      \cup {Envelope("success", d, NoPagination) : d \in {<<>>, <<"user">>, <<"admin">>}}

\* Fault: the role of the user is not tested.
LoginOutcomeAnyRole(resp) ==
    CASE resp.kind \in {"network", "badjson"} -> "threw"
      [] ~IsSuccess(resp) -> "failed"
      [] resp.data = <<>> -> "threw"
      [] OTHER -> "stored"

\* How handleSubmit ends after its await: in catch ("threw": fetch rejected,
\* res.json() threw, or data.user is missing), in the else branch ("failed"),
\* at the early return for a role other than admin ("denied"), or past the
\* two localStorage.setItem calls ("stored").
LoginOutcome(resp) ==
    CASE resp.kind \in {"network", "badjson"} -> "threw"
      [] ~IsSuccess(resp) -> "failed"
      [] resp.data = <<>> -> "threw"
      [] resp.data # <<"admin">> -> "denied"
      [] OTHER -> "stored"

\* The state setters of handleSubmit after its await.
LoginDone(l, resp) ==
    CASE LoginOutcome(resp) = "threw" ->
            [l EXCEPT !.error = LoginNetworkMsg, !.loading = FALSE]
      [] LoginOutcome(resp) = "failed" ->
            [l EXCEPT !.error = IF resp.message # null THEN resp.message
                                 ELSE LoginFailedMsg,
                      !.loading = FALSE]
      [] LoginOutcome(resp) = "denied" ->
            [l EXCEPT !.roleError = RoleDeniedMsg, !.loading = FALSE]
      [] LoginOutcome(resp) = "stored" /\ StorageThrows ->
            [l EXCEPT !.error = LoginNetworkMsg, !.loading = FALSE]
      [] OTHER -> [l EXCEPT !.loading = FALSE]

\* The response of the login request arrives.  The state setters act only on
\* the instance that issued the request; localStorage.setItem and
\* router.push('/dashboard') run whether or not it is still mounted.  A
\* localStorage.setItem that throws lands in the catch block: nothing is
\* stored and no navigation starts.
ResolveLogin(i, resp) ==
    /\ i \in DOMAIN inflight
    /\ inflight[i].view = "login"
    /\ LET r == inflight[i]
           stored == LoginOutcome(resp) = "stored" /\ ~StorageThrows
       IN /\ login' = IF r.modal THEN LoginDone(login, resp) ELSE login
          /\ token' = IF stored THEN IssuedToken ELSE token
          /\ storedUser' = IF stored THEN "admin" ELSE storedUser
          /\ navPending' = (navPending \/ (stored /\ route = "login"))
          /\ inflight' = RemoveAt(inflight, i)
          /\ last' = [Ev("resolve", "login") EXCEPT
                        !.resp = resp, !.applied = r.modal,
                        !.calls = IF stored THEN <<"setItem", "push">> ELSE <<>>]
    /\ UNCHANGED <<env, route, dash, um, rm, ap, ph, intervals, orphaned, edge>>

\* The navigation to /dashboard completes, the edge letting the request for
\* /dashboard pass: Login is unmounted, AdminDashboard is mounted.
LoginNavigationCompletes ==
    /\ navPending /\ route = "login"
    /\ EdgeAnswer(NavRequest(DashboardPath)) = "next"
    /\ route' = "dashboard"
    /\ navPending' = FALSE
    /\ login' = LoginInit
    /\ dash' = DashInit
    /\ inflight' = [i \in DOMAIN inflight |-> [inflight[i] EXCEPT !.modal = FALSE]]
    /\ last' = Ev("navigate", "dashboard")
    /\ UNCHANGED <<env, token, storedUser, um, rm, ap, ph, intervals, orphaned, edge>>

\* What storage holds when the login page is opened.
LoginPageInit ==
    /\ token \in {null, "old"}
    /\ storedUser \in {null, "user"}
    /\ route = "login"
    /\ navPending = FALSE
    /\ dash = DashInit
    /\ um = UmInit /\ rm = RmInit /\ ap = ApInit /\ ph = PhInit
    /\ intervals = {}
    /\ inflight = <<>>
    /\ orphaned = 0
    /\ last = Ev("init", "")
    /\ login = [LoginInit EXCEPT !.mounted = TRUE]
    /\ edge = NoEdge
    /\ env = HealthyEnv

LoginNext ==
    \/ \E v \in Emails : setEmail(v)
    \/ \E v \in Passwords : setPassword(v)
    \/ loginSubmit
    \/ \E i \in 1..MaxInFlight, resp \in LoginResponses : ResolveLogin(i, resp)
    \/ LoginNavigationCompletes

LoginSpec == LoginPageInit /\ [][LoginNext]_vars

\* ------------------------------------------------- requests at the edge
\* A request reaches the edge.
EdgeReceives(req) ==
    /\ edge.response # "pending"
    /\ edge' = [request |-> req, response |-> "pending"]
    /\ UNCHANGED <<env, token, storedUser, route, navPending, dash, um, rm, ap, ph,
                   intervals, inflight, orphaned, last, login>>

\* The edge answers the request.
EdgeHandles ==
    /\ edge.response = "pending"
    /\ edge' = [edge EXCEPT !.response = EdgeAnswer(edge.request)]
    /\ UNCHANGED <<env, token, storedUser, route, navPending, dash, um, rm, ap, ph,
                   intervals, inflight, orphaned, last, login>>

MiddlewareNext ==
    \/ \E req \in Requests : EdgeReceives(req)
    \/ EdgeHandles

MiddlewareSpec == Init /\ [][MiddlewareNext]_vars

\* --------------------------------------------------- the history pager
\* The paginations of a backend that keeps 1 <= page <= pages, with enough
\* pages for the window of five numbered buttons to slide; the total is one
\* that fills three pages or one that fills MaxPagerPages pages; the limit is
\* the one requested or one the backend has lowered.
PagerPaginations ==
    {pg \in [total : {45, MaxPagerPages * DefaultLimit}, page : 1..MaxPagerPages,
             limit : {DefaultLimit, DefaultLimit \div 2}, pages : 1..MaxPagerPages] :
        pg.page <= pg.pages}

PagerResponses ==
    {NetworkFailure, Envelope("error", <<>>, NoPagination), HttpFailure(500, null)}
      \cup {Envelope("success", <<"h1">>, pg) : pg \in PagerPaginations}

\* The history view alone, with one filter, every button of the pager and
\* the answers of such a backend.
HistoryNext ==
    \/ DashboardMount
    \/ setActiveView("parking-history")
    \/ \E v \in PaymentStatuses : setSelectedPaymentStatus(v)
    \/ handleApplyFilters
    \/ clearFilters
    \/ \E n \in 1..MaxPagerPages : handlePageChange(n)
    \/ HistoryRetry
    \/ \E i \in 1..MaxInFlight, resp \in PagerResponses : ResolveHistory(i, resp)

HistorySpec == Init /\ [][HistoryNext]_vars

\* ------------------------------------------------- client-side filtering
\* String.prototype.toLowerCase, on the letters the texts are made of.
LowerChar(c) ==
    CASE c = "A" -> "a"
      [] c = "B" -> "b"
      [] OTHER -> c

ToLowerCase(s) == [k \in DOMAIN s |-> LowerChar(s[k])]

\* String.prototype.includes: t occurs in s as a substring (the empty text
\* occurs in every text).
Includes(s, t) ==
    \E k \in 0..(Len(s) - Len(t)) : SubSeq(s, k + 1, k + Len(t)) = t

\* field.toLowerCase().includes(searchTerm.toLowerCase())
FieldMatches(field, term) == Includes(ToLowerCase(field), ToLowerCase(term))

\* The predicate of filteredRecords: an empty search text keeps every record.
RecordMatches(record, term) ==
    \/ term = <<>>
    \/ FieldMatches(record.vehicle_plate, term)
    \/ FieldMatches(record.vehicle_description, term)
    \/ FieldMatches(record.user_name, term)
    \/ FieldMatches(record.user_email, term)

\* The records the history table shows.
filteredRecords ==
    SelectSeq(ph.historyRecords, LAMBDA record : RecordMatches(record, ph.searchTerm))

\* matchesSearch of filteredSessions.
SessionMatchesSearch(session, term) ==
    \/ FieldMatches(session.vehicle_plate, term)
    \/ FieldMatches(session.vehicle_description, term)
    \/ FieldMatches(session.userID, term)

\* The sessions the active-sessions table shows.
filteredSessions ==
    SelectSeq(ap.activeSessions,
              LAMBDA session :
                  /\ SessionMatchesSearch(session, ap.searchTerm)
                  /\ \/ ap.selectedPaymentStatus = "all"
                     \/ session.payment_status = ap.selectedPaymentStatus)

\* matchesSearch of filteredUsers.
UserMatchesSearch(user, term) ==
    \/ FieldMatches(user.username, term)
    \/ FieldMatches(user.email, term)
    \/ \E k \in DOMAIN user.vehicles :
          \/ FieldMatches(user.vehicles[k].plate, term)
          \/ FieldMatches(user.vehicles[k].description, term)

\* The users the users table shows.
filteredUsers ==
    SelectSeq(um.users,
              LAMBDA user :
                  /\ UserMatchesSearch(user, um.searchTerm)
                  /\ \/ um.selectedRole = "all"
                     \/ user.role = um.selectedRole)

\* The filters and the table of the users view are on screen, not covered by
\* the modal's overlay.
UsersShown == ModalRendered(um) /\ ~um.rfidModal.isOpen

\* The search input of the users view.
UsersSetSearchTerm(v) ==
    /\ UsersShown
    /\ v # um.searchTerm
    /\ um' = [um EXCEPT !.searchTerm = v]
    /\ last' = Ev("setSearchTerm", "users")
    /\ UNCHANGED <<env, login, edge, token, storedUser, route, navPending, dash, rm, ap, ph,
                   intervals, inflight, orphaned>>

\* The role select of the users view.
setSelectedRole(v) ==
    /\ UsersShown
    /\ v # um.selectedRole
    /\ um' = [um EXCEPT !.selectedRole = v]
    /\ last' = Ev("setSelectedRole", "users")
    /\ UNCHANGED <<env, login, edge, token, storedUser, route, navPending, dash, rm, ap, ph,
                   intervals, inflight, orphaned>>

\* The filters and the table of the active-sessions view are on screen.
ActiveShown == ap.mounted /\ ~ap.isLoading /\ ap.error = null

\* The search input of the active-sessions view.
ActiveSetSearchTerm(v) ==
    /\ ActiveShown
    /\ v # ap.searchTerm
    /\ ap' = [ap EXCEPT !.searchTerm = v]
    /\ last' = Ev("setSearchTerm", "active-parking")
    /\ UNCHANGED <<env, login, edge, token, storedUser, route, navPending, dash, um, rm, ph,
                   intervals, inflight, orphaned>>

\* The payment-status select of the active-sessions view.
ActiveSetSelectedPaymentStatus(v) ==
    /\ ActiveShown
    /\ v # ap.selectedPaymentStatus
    /\ ap' = [ap EXCEPT !.selectedPaymentStatus = v]
    /\ last' = Ev("setSelectedPaymentStatus", "active-parking")
    /\ UNCHANGED <<env, login, edge, token, storedUser, route, navPending, dash, um, rm, ph,
                   intervals, inflight, orphaned>>

\* The texts of the searchable fields and the texts typed into the search
\* inputs.
FieldTexts == {<<"A", "b">>, <<"b">>}
FilterTerms == {<<>>, <<"a">>, <<"B">>, <<"a", "b">>}

FilterRecords ==
    [vehicle_plate : FieldTexts, vehicle_description : FieldTexts,
     user_name : FieldTexts, user_email : FieldTexts]

FilterSessions ==
    [vehicle_plate : FieldTexts, vehicle_description : FieldTexts,
     userID : FieldTexts, payment_status : {"pending", "paid"}]

FilterVehicles == [plate : FieldTexts, description : FieldTexts]

FilterUsers ==
    [username : FieldTexts, email : FieldTexts,
     vehicles : {<<>>} \cup {<<v>> : v \in FilterVehicles},
     role : {"user", "admin"}, userID : {"u1"}, rfid : {<<>>}]

\* A list view that has received its items: the dashboard is past its check,
\* one tab is active, its first response has been stored.
FilterInit ==
    /\ token = "tok" /\ storedUser = "admin"
    /\ route = "dashboard" /\ navPending = FALSE
    /\ \E view \in ListViews :
          /\ dash = [isLoading |-> FALSE, activeView |-> view, checked |-> TRUE]
          /\ intervals = {view} \cap {"users", "active-parking"}
          /\ IF view = "users"
             THEN \E user \in FilterUsers :
                     um = [UmInit EXCEPT !.mounted = TRUE, !.isLoading = FALSE,
                                         !.users = <<user>>]
             ELSE um = UmInit
          /\ IF view = "active-parking"
             THEN \E session \in FilterSessions :
                     ap = [ApInit EXCEPT !.mounted = TRUE, !.isLoading = FALSE,
                                         !.activeSessions = <<session>>]
             ELSE ap = ApInit
          /\ IF view = "parking-history"
             THEN \E record \in FilterRecords :
                     ph = [PhInit EXCEPT
                              !.mounted = TRUE, !.isLoading = FALSE,
                              !.historyRecords = <<record>>,
                              !.pagination = [total |-> 1, page |-> 1,
                                              limit |-> DefaultLimit, pages |-> 1]]
             ELSE ph = PhInit
    /\ rm = [RmInit EXCEPT !.mounted = um.mounted]
    /\ inflight = <<>>
    /\ orphaned = 0
    /\ last = Ev("init", "")
    /\ login = LoginInit
    /\ edge = NoEdge
    /\ env = HealthyEnv

FilterNext ==
    \/ \E v \in FilterTerms : setSearchTerm(v)
    \/ \E v \in FilterTerms : UsersSetSearchTerm(v)
    \/ \E v \in {"all", "admin"} : setSelectedRole(v)
    \/ \E v \in FilterTerms : ActiveSetSearchTerm(v)
    \/ \E v \in {"all", "paid"} : ActiveSetSelectedPaymentStatus(v)

FilterSpec == FilterInit /\ [][FilterNext]_vars

\* ------------------------------------------- sessions: login and logout
\* What the browser holds when a page of the application is opened:
\* localStorage as an earlier session, another application of the origin or
\* the user left it, accessible or not, and either copy of utils/auth.ts.
AuthInit ==
    /\ token \in {null, "tok"}
    /\ storedUser \in {null, "user", "admin", "corrupt"}
    /\ env \in [storage : {"ok", "throws"}, cookie : {Absent},
                authCopy : {"guarded", "unguarded"}]
    /\ route \in {"dashboard", "login"}
    /\ navPending = FALSE
    /\ dash = DashInit
    /\ um = UmInit /\ rm = RmInit /\ ap = ApInit /\ ph = PhInit
    /\ intervals = {}
    /\ inflight = <<>>
    /\ orphaned = 0
    /\ last = Ev("init", "")
    /\ login = [LoginInit EXCEPT !.mounted = (route = "login")]
    /\ edge = NoEdge

\* The login page, the dashboard's mount check and its Logout button.
AuthNext ==
    \/ DashboardMount
    \/ handleLogout
    \/ NavigationCompletes
    \/ \E v \in Emails : setEmail(v)
    \/ \E v \in Passwords : setPassword(v)
    \/ loginSubmit
    \/ \E i \in 1..MaxInFlight, resp \in LoginResponses : ResolveLogin(i, resp)
    \/ LoginNavigationCompletes
    \/ ResolveOrphaned

AuthSpec == AuthInit /\ [][AuthNext]_vars

\* -------------------------------------- navigation between the two pages
\* The page the browser shows after it was asked for `pathname`: the edge
\* lets the request pass or redirects it, once.
PageServed(pathname) ==
    CASE EdgeAnswer(NavRequest(pathname)) = "redirect:/dashboard" -> "dashboard"
      [] EdgeAnswer(NavRequest(pathname)) = "redirect:/login" -> "login"
      [] OTHER -> IF pathname = LoginPath THEN "login" ELSE "dashboard"

\* /login or /dashboard was typed into the address bar of a browser that
\* holds any 'token' cookie and any localStorage, and the edge has served the
\* page.
NavInit ==
    /\ token \in {null, "tok"}
    /\ storedUser \in {null, "user", "admin", "corrupt"}
    /\ env \in [storage : {"ok", "throws"}, cookie : Cookies,
                authCopy : {"guarded", "unguarded"}]
    /\ \E pathname \in {LoginPath, DashboardPath} :
          /\ edge = [request |-> NavRequest(pathname),
                     response |-> EdgeAnswer(NavRequest(pathname))]
          /\ route = PageServed(pathname)
    /\ navPending = FALSE
    /\ dash = DashInit
    /\ um = UmInit /\ rm = RmInit /\ ap = ApInit /\ ph = PhInit
    /\ intervals = {}
    /\ inflight = <<>>
    /\ orphaned = 0
    /\ last = Ev("init", "")
    /\ login = [LoginInit EXCEPT !.mounted = (route = "login")]

\* What happens without the user: the dashboard's mount check and the
\* navigation it starts.
NavNext ==
    \/ DashboardMount
    \/ NavigationCompletes
    \/ NavigationRedirected

\* None of these steps waits for anything: each happens once it can.
NavSpec == NavInit /\ [][NavNext]_vars /\ WF_vars(NavNext)

\* A browser that has not run the application before opens the login page:
\* localStorage holds neither key.
SessionInit ==
    /\ token = null
    /\ storedUser = null
    /\ env \in [storage : {"ok", "throws"}, cookie : {Absent},
                authCopy : {"guarded", "unguarded"}]
    /\ route = "login"
    /\ navPending = FALSE
    /\ dash = DashInit
    /\ um = UmInit /\ rm = RmInit /\ ap = ApInit /\ ph = PhInit
    /\ intervals = {}
    /\ inflight = <<>>
    /\ orphaned = 0
    /\ last = Ev("init", "")
    /\ login = [LoginInit EXCEPT !.mounted = TRUE]
    /\ edge = NoEdge

\* Any sequence of login attempts and logouts.
SessionSpec == SessionInit /\ [][AuthNext]_vars

\* ---------------------------------------------------------------- claims
\* What a list view holds.
ItemsOf(view) ==
    CASE view = "users" -> um.users
      [] view = "active-parking" -> ap.activeSessions
      [] OTHER -> ph.historyRecords

ErrorOf(view) ==
    CASE view = "users" -> um.error
      [] view = "active-parking" -> ap.error
      [] OTHER -> ph.error

\* The last event is the arrival of a list response at its mounted view.
ListResolved(view) == last.op = "resolve" /\ last.view = view

\* The same, of the step being taken.
ListResolving(view) == last'.op = "resolve" /\ last'.view = view

UnsuccessfulEnvelope(resp) == resp.kind = "ok" /\ resp.envelope # "success"

\* The request the last event issued.
IssuedReq == inflight[Len(inflight)]

\* C1: in every list view, the arrival of a 2xx response whose envelope has
\* status # "success" leaves the view's items (and the history pagination) as
\* they were and leaves error non-empty.
C1_UnsuccessfulEnvelopeKeepsItems ==
    [][\A view \in ListViews :
        (ListResolving(view) /\ UnsuccessfulEnvelope(last'.resp)) =>
            /\ ItemsOf(view)' = ItemsOf(view)
            /\ ph.pagination' = ph.pagination
            /\ ErrorOf(view)' # null]_vars

\* A users list that holds a user has received an unsuccessful envelope.
C1_Witness ==
    /\ ListResolved("users") /\ UnsuccessfulEnvelope(last.resp)
    /\ um.users # <<>>
    /\ um.error = "Failed to fetch users data"

\* C2 (as claimed): in every list view, once a 2xx response with status
\* "success" has arrived, items (and the history pagination) are that
\* response's data and error is empty.
C2_SuccessStoresDataAndClearsError ==
    \A view \in ListViews :
        (ListResolved(view) /\ IsSuccess(last.resp) /\ token # null) =>
            /\ ItemsOf(view) = last.resp.data
            /\ view = "parking-history" => ph.pagination = last.resp.pagination
            /\ ErrorOf(view) = null

\* C3: in the users and active-sessions views a successful response is stored
\* whenever it arrives, also when the response of a request issued later has
\* already been stored: the items are those of the response that arrived last.
C3_LastArrivedResponseWins ==
    \A view \in {"users", "active-parking"} :
        (ListResolved(view) /\ IsSuccess(last.resp)) =>
            ItemsOf(view) = last.resp.data

\* The response of an earlier request has overwritten the sessions stored by
\* the response of a later one.
C3_Witness ==
    /\ ListResolved("active-parking") /\ IsSuccess(last.resp)
    /\ last.stale
    /\ ap.activeSessions = <<"s1">>

FilterSetters ==
    {"setSelectedPaymentStatus", "setStartDate", "setEndDate", "setSortBy",
     "setSortOrder"}

\* C4 (as claimed): every history request issued with newly chosen filter
\* values (by a filter control or by Apply Filters) carries page = 1.
C4_FilterRequestsCarryPageOne ==
    (last.op \in FilterSetters \cup {"handleApplyFilters"} /\ last.issued > 0) =>
        IssuedReq.params.page = 1

\* C4 (amended): Apply Filters leaves page = 1 whatever the page was, and
\* the request it issues carries page = 1; the request a filter control issues
\* carries the page the view is on.
C4_ApplyFiltersResetsPage ==
    /\ last.op = "handleApplyFilters" =>
          /\ ph.pagination.page = 1
          /\ last.issued > 0 => IssuedReq.params.page = 1
    /\ (last.op \in FilterSetters /\ last.issued > 0) =>
          IssuedReq.params.page = ph.pagination.page

\* Apply Filters, pressed on a later page with a filter set, has issued a
\* request.
C4_Witness ==
    /\ last.op = "handleApplyFilters" /\ last.issued = 1
    /\ IssuedReq.params.page = 1
    /\ IssuedReq.params.status = "paid"

\* C5 (as claimed): every invocation of Apply Filters or Clear Filters issues
\* a history request.
C5_ApplyAndClearAlwaysRefresh ==
    (last.op \in {"handleApplyFilters", "clearFilters"} /\ token # null) =>
        last.issued > 0

\* C6 (as claimed): while the users tab stays the active one and a token is
\* stored, the RFID modal leaves the screen only on cancel or on a successful
\* submit or remove.
C6_ModalLeavesOnlyOnCancelOrSuccess ==
    [][(/\ ModalDisplayed /\ ~ModalDisplayed'
        /\ dash' = dash /\ route' = route /\ token # null /\ token' # null) =>
        \/ last'.op = "cancel"
        \/ last'.op = "resolve" /\ last'.view = "rfid" /\ ResponseOk(last'.resp)]_vars

RfidRequests == SelectSeq(inflight, LAMBDA r : r.view = "rfid")

\* C7 (as claimed): at most one RFID request is in flight.
C7_AtMostOneRfidRequest == Len(RfidRequests) <= 1

\* C8 (as claimed): after a failed submit or remove (a response that is not
\* ok, a network failure, no stored token) the modal is on screen with a
\* non-empty error, and the refresh callback was not invoked.
C8_FailureKeepsModalOpenWithError ==
    (/\ last.view = "rfid"
     /\ \/ last.op = "resolve" /\ ~ResponseOk(last.resp)
        \/ last.resp = NoTokenThrown) =>
        /\ ModalDisplayed
        /\ rm.error # null
        /\ last.calls = <<>>
        /\ last.issued = 0

IsBlank(s) == \A k \in DOMAIN s : s[k] = " "

\* C9: a submit with an empty or whitespace-only value issues no request and
\* leaves the modal (open, value, error, loading) and the users view as they
\* were.
C9_BlankSubmitDoesNothing ==
    [][(last'.op = "handleSubmit" /\ IsBlank(rm.rfidValue)) =>
        /\ inflight' = inflight
        /\ orphaned' = orphaned
        /\ rm' = rm
        /\ um' = um]_vars

\* A whitespace-only value was submitted, with a token stored.
C9_Witness ==
    /\ last.op = "handleSubmit" /\ last.issued = 0
    /\ rm.rfidValue = <<" ">>
    /\ ModalDisplayed /\ ~rm.isLoading /\ rm.error = null
    /\ token # null /\ inflight = <<>>

\* A submit or remove has received a 2xx response with status "success".
RfidSucceeded == last.op = "resolve" /\ last.view = "rfid" /\ IsSuccess(last.resp)

\* C10 (as claimed): a successful submit or remove invokes the refresh
\* callback once, issuing one users-list request, before it closes the modal
\* in the same step.
C10_SuccessIssuesOneRefresh ==
    RfidSucceeded =>
        /\ last.calls = <<"onSuccess", "onClose">>
        /\ last.issued = 1
        /\ ~um.rfidModal.isOpen

\* C10 (amended): a successful submit or remove invokes the refresh callback
\* once and then closes the modal, in the same step; the callback issues one
\* users-list request if a token is stored and none otherwise, and that
\* request is still in flight when the modal has closed.
C10_SuccessRefreshesThenCloses ==
    RfidSucceeded =>
        /\ last.calls = <<"onSuccess", "onClose">>
        /\ ~um.rfidModal.isOpen
        /\ last.issued = (IF token # null THEN 1 ELSE 0)
        /\ token # null => (IssuedReq.view = "users" /\ IssuedReq.method = "GET")

\* A submit has succeeded: the modal is closed and the users-list request the
\* callback issued is in flight.
C10_Witness ==
    /\ RfidSucceeded /\ last.issued = 1
    /\ ~um.rfidModal.isOpen
    /\ IssuedReq.view = "users"

\* The login response handled by the last step is 2xx with status "success"
\* and the role admin.
AdminLoginArrived ==
    /\ last.op = "resolve" /\ last.view = "login"
    /\ IsSuccess(last.resp) /\ last.resp.data = <<"admin">>

\* C11: token and user are written to storage, and the navigation to
\* /dashboard is started, only by a login response that is 2xx with status
\* "success" and role admin (the page changes to /dashboard only with that
\* token and user stored); a successful response with role "user" shows the
\* role-denied message and leaves storage as it was.
C11_StorageWrittenOnlyForAdmin ==
    [][/\ (token' # token \/ storedUser' # storedUser \/ (navPending' /\ ~navPending))
             => AdminLoginArrived'
       /\ (route' = "dashboard" /\ route # "dashboard")
             => (token = IssuedToken /\ storedUser = "admin")
       /\ (/\ last'.op = "resolve" /\ last'.view = "login" /\ last'.applied
           /\ IsSuccess(last'.resp) /\ last'.resp.data = <<"user">>)
             => /\ login'.roleError = RoleDeniedMsg
                /\ token' = token /\ storedUser' = storedUser
                /\ navPending' = navPending]_vars

\* A login answered with the role "user": the message is shown, storage is
\* empty.
C11_Witness ==
    /\ last.op = "resolve" /\ last.view = "login"
    /\ IsSuccess(last.resp) /\ last.resp.data = <<"user">>
    /\ login.roleError = RoleDeniedMsg
    /\ token = null /\ storedUser = null /\ route = "login"

\* The edge has answered a request for /dashboard or a path under it that
\* carries no token, neither in the cookie nor in the Authorization header.
TokenlessDashboardRequest ==
    /\ edge.response \notin {"none", "pending"}
    /\ \/ edge.request.pathname = DashboardPath
       \/ StartsWith(edge.request.pathname, DashboardPath \o <<"/">>)
    /\ ~edge.request.cookie.present
    /\ ~edge.request.authorization.present

\* C12 (as claimed): a request for /dashboard, or a path under it, without a
\* token in the cookie and in the Authorization header is answered with a
\* redirect to /login.
C12_TokenlessDashboardRedirected ==
    TokenlessDashboardRequest => edge.response = "redirect:/login"

\* A list view is mounted, or a request of the dashboard is in flight.
ContentShown == um.mounted \/ ap.mounted \/ ph.mounted \/ inflight # <<>>

\* C13: the dashboard leaves its loading screen only at a mount that finds a
\* token and a user record with role admin in storage; a list view is mounted
\* and a request is in flight only past the loading screen; a mount that finds
\* anything else starts the navigation to /login and stays on the loading
\* screen.
C13_ContentOnlyForStoredAdmin ==
    [][/\ (dash.isLoading /\ ~dash.isLoading')
             => (last'.op = "dashboardMount" /\ token # null /\ storedUser = "admin")
       /\ ContentShown' => (route' = "dashboard" /\ ~dash.isLoading')
       /\ (last'.op = "dashboardMount" /\ ~(token # null /\ storedUser = "admin"))
             => (navPending' /\ dash.isLoading' /\ ~ContentShown')]_vars

\* The dashboard was mounted with a token and the record of a plain user:
\* the redirect is under way, nothing is shown.
C13_Witness ==
    /\ last.op = "dashboardMount"
    /\ token = "tok" /\ storedUser = "user"
    /\ navPending /\ dash.isLoading /\ ~ContentShown

LoadingOf(view) ==
    CASE view = "users" -> um.isLoading
      [] view = "active-parking" -> ap.isLoading
      [] OTHER -> ph.isLoading

MountedView(view) ==
    CASE view = "users" -> um.mounted
      [] view = "active-parking" -> ap.mounted
      [] OTHER -> ph.mounted

\* The last event invoked the fetch of `view` and found no token.
FetchWithoutToken(view) ==
    /\ last.op \in {"tick", "retry", "setActiveView"} /\ last.view = view
    /\ token = null /\ MountedView(view)

\* C14: in every list view, after a response of any kind has arrived loading
\* is false, unless the stored pagination made the history view issue a new
\* request in the same step (loading is then that request's); after a fetch
\* that found no token loading is false as well.
C14_FetchEndsNotLoading ==
    \A view \in ListViews :
        /\ ListResolved(view) =>
              \/ ~LoadingOf(view)
              \/ /\ view = "parking-history" /\ last.issued = 1
                 /\ IssuedReq.view = "parking-history"
        /\ FetchWithoutToken(view) => (~LoadingOf(view) /\ last.issued = 0)

\* A history request was answered with a status that is not 2xx: the failure
\* is stored and the view is no longer loading.
C14_Witness ==
    /\ ListResolved("parking-history") /\ last.resp.kind = "http"
    /\ ~ph.isLoading /\ ph.error # null /\ inflight = <<>>

\* The message the claim names for a response with a status that is not 2xx.
StatusMessage(status) ==
    CASE status = 401 -> "Authentication failed. Please login again."
      [] status = 403 -> "Access denied. Admin privileges required."
      [] OTHER -> "HTTP error! status: 500"

\* C15: in every list view, the arrival of a response with status 401, 403
\* or another status that is not 2xx stores the message of that status as the
\* error, leaves the items and the pagination as they were, and changes
\* neither the stored token and user nor the page shown (no redirect, no
\* logout).
C15_HttpFailureSetsErrorOnly ==
    [][\A view \in ListViews :
        (ListResolving(view) /\ last'.resp.kind = "http") =>
            /\ ErrorOf(view)' = StatusMessage(last'.resp.status)
            /\ ItemsOf(view)' = ItemsOf(view)
            /\ ph.pagination' = ph.pagination
            /\ token' = token /\ storedUser' = storedUser
            /\ route' = route /\ navPending' = navPending
            /\ dash' = dash]_vars

\* An active-sessions list that holds sessions has received a 401: the
\* sessions are kept, the token is still stored, the dashboard is still shown.
C15_Witness ==
    /\ ListResolved("active-parking") /\ last.resp.kind = "http"
    /\ last.resp.status = 401
    /\ ap.error = "Authentication failed. Please login again."
    /\ ap.activeSessions # <<>>
    /\ token = "tok" /\ route = "dashboard" /\ ~navPending

TimedViews == {"users", "active-parking"}

\* C16: the interval of a users or active-sessions view is live exactly while
\* the view is mounted; the mount of the view and every tick of its interval
\* invoke the fetch once (one request when a token is stored); a tick happens
\* only in a mounted view; and the unmount of a view takes no request out of
\* the network.
C16_IntervalLivesWithView ==
    [][\A view \in TimedViews :
        /\ (view \in intervals') <=> MountedView(view)'
        /\ (last'.op = "tick" /\ last'.view = view) =>
              /\ MountedView(view) /\ MountedView(view)'
              /\ last'.issued = (IF token # null THEN 1 ELSE 0)
              /\ InNetwork' = InNetwork + last'.issued
        /\ (last'.op = "setActiveView" /\ last'.view = view) =>
              /\ ~MountedView(view) /\ MountedView(view)'
              /\ last'.issued = (IF token # null THEN 1 ELSE 0)
              /\ InNetwork' = InNetwork + last'.issued
        /\ (MountedView(view) /\ ~MountedView(view)') =>
              /\ InNetwork' >= InNetwork
              /\ orphaned' = orphaned + Len(inflight)]_vars

\* The users view was left for another tab while a request of it was in
\* flight: the interval is gone, the request is still in the network.
C16_Witness ==
    /\ last.op = "setActiveView" /\ last.view = "overview"
    /\ ~um.mounted /\ intervals = {}
    /\ orphaned = 1 /\ inflight = <<>>

\* The requests of `view` in flight.
RequestsOf(view) == SelectSeq(inflight, LAMBDA r : r.view = view)

\* C17: while the interval of a users or active-sessions view is live, its
\* tick can fire whatever requests of the view are in flight (the bound on the
\* network aside), and a tick that finds a token issues a request of the view.
C17_TickIgnoresInFlight ==
    /\ ("users" \in intervals /\ InNetwork < MaxInFlight) => ENABLED UsersTick
    /\ ("active-parking" \in intervals /\ InNetwork < MaxInFlight) => ENABLED ActiveTick
    /\ (last.op = "tick" /\ token # null) =>
          (last.issued = 1 /\ IssuedReq.view = last.view)

\* A tick of the users view has issued a request while an earlier request of
\* the view was still in flight.
C17_Witness ==
    /\ last.op = "tick" /\ last.view = "users"
    /\ Len(RequestsOf("users")) = 2

\* The step clears the error of `view` or issues a request of it.
Recovers(view) ==
    \/ ErrorOf(view)' = null
    \/ Len(RequestsOf(view)') > Len(RequestsOf(view))

\* The view is mounted before and after the step and shows an error before.
StaysInError(view) ==
    MountedView(view) /\ MountedView(view)' /\ ErrorOf(view) # null

\* C18 (as claimed): in every list view, while the error is non-empty only
\* the Retry action clears it or issues a request of the view.
C18_OnlyRetryRecovers ==
    [][\A view \in ListViews :
        (StaysInError(view) /\ Recovers(view)) =>
            (last'.op = "retry" /\ last'.view = view)]_vars

\* C18 (amended): while the error of a view is non-empty, only the Retry
\* action, in the users and active-sessions views the tick of the interval,
\* and in the users view the refresh callback of an RFID request that ended
\* well clear it or issue a request of the view; in the history view only
\* Retry does.  Retry issues one request when a token is stored, and in the
\* history view that request carries the current page and filters.
C18_RetryOrTickRecovers ==
    [][\A view \in ListViews :
        /\ (StaysInError(view) /\ Recovers(view)) =>
              \/ last'.op = "retry" /\ last'.view = view
              \/ last'.op = "tick" /\ last'.view = view /\ view \in TimedViews
              \/ /\ last'.op = "resolve" /\ last'.view = "rfid" /\ view = "users"
                 /\ last'.calls # <<>> /\ last'.calls[1] = "onSuccess"
        /\ (last'.op = "retry" /\ last'.view = view) =>
              /\ ErrorOf(view) # null
              /\ last'.issued = (IF token # null THEN 1 ELSE 0)
              /\ (token # null) =>
                    /\ inflight'[Len(inflight')].view = view
                    /\ ErrorOf(view)' = null
                    /\ view = "parking-history" =>
                          /\ inflight'[Len(inflight')].params.page = ph.pagination.page
                          /\ inflight'[Len(inflight')].params.status =
                                (IF ph.selectedPaymentStatus = "all" THEN null
                                 ELSE ph.selectedPaymentStatus)
                          /\ ph.pagination' = ph.pagination
                          /\ ph.selectedPaymentStatus' = ph.selectedPaymentStatus]_vars

\* Retry was pressed on the error screen of a history view that is on a later
\* page with a filter set: the request carries that page and filter.
C18_Witness ==
    /\ last.op = "retry" /\ last.view = "parking-history" /\ last.issued = 1
    /\ ph.pagination.page = 2 /\ ph.selectedPaymentStatus = "paid"
    /\ IssuedReq.params.page = 2 /\ IssuedReq.params.status = "paid"

\* C19 (as claimed): a 2xx response whose envelope has a status other than
\* "success" is a failure for every call: a list view stores an error, and
\* an RFID submit or remove invokes no callback, leaves the modal open and
\* stores an error in the modal that issued it.
C19_UnsuccessfulEnvelopeIsFailure ==
    /\ \A view \in ListViews :
          (ListResolved(view) /\ UnsuccessfulEnvelope(last.resp)) =>
              ErrorOf(view) # null
    /\ (last.op = "resolve" /\ last.view = "rfid" /\ UnsuccessfulEnvelope(last.resp)) =>
          /\ last.calls = <<>>
          /\ last.issued = 0
          /\ um.rfidModal.isOpen
          /\ last.applied => rm.error # null

\* C20: with a backend that keeps 1 <= page <= pages, the page of the history
\* view is within [1, pages] in every state; every enabled button of the pager
\* (Previous, the numbered buttons, Next) leads to a page within [1, pages];
\* there are min(5, pages) numbered buttons, the current page among them;
\* Previous leads nowhere at page 1 and Next nowhere at the last page.
C20_PageWithinPages ==
    LET pg == ph.pagination
    IN /\ 1 <= pg.page /\ pg.page <= pg.pages
       /\ PageButtons(pg) \subseteq 1..pg.pages
       /\ Cardinality(PageButtons(pg)) = (IF pg.pages < 5 THEN pg.pages ELSE 5)
       /\ pg.page \in PageButtons(pg)
       /\ PagerTargets(pg) \subseteq 1..pg.pages
       /\ pg.pages > 1 =>
             /\ (pg.page - 1 \in PagerTargets(pg)) <=> (pg.page > 1)
             /\ (pg.page + 1 \in PagerTargets(pg)) <=> (pg.page < pg.pages)

\* The last page of six was reached by a click: the numbered buttons are
\* 2..6 and Next leads nowhere.
C20_Witness ==
    /\ last.op = "handlePageChange"
    /\ ph.pagination.page = 6 /\ ph.pagination.pages = 6
    /\ PageButtons(ph.pagination) = 2..6
    /\ PagerTargets(ph.pagination) = 2..6

\* The items a table shows.
Shown(items) == {items[k] : k \in DOMAIN items}

\* C21 (as claimed): an item is displayed only if every field the view's
\* search is configured with contains the search text, case-insensitively
\* (history: plate, vehicle description, user name, user email; active
\* sessions: plate, vehicle description, user ID; users: name, email, and the
\* plate and the description of each vehicle).
C21_SearchIsConjunction ==
    /\ \A record \in Shown(filteredRecords) :
          /\ FieldMatches(record.vehicle_plate, ph.searchTerm)
          /\ FieldMatches(record.vehicle_description, ph.searchTerm)
          /\ FieldMatches(record.user_name, ph.searchTerm)
          /\ FieldMatches(record.user_email, ph.searchTerm)
    /\ \A session \in Shown(filteredSessions) :
          /\ FieldMatches(session.vehicle_plate, ap.searchTerm)
          /\ FieldMatches(session.vehicle_description, ap.searchTerm)
          /\ FieldMatches(session.userID, ap.searchTerm)
    /\ \A user \in Shown(filteredUsers) :
          /\ FieldMatches(user.username, um.searchTerm)
          /\ FieldMatches(user.email, um.searchTerm)
          /\ \A k \in DOMAIN user.vehicles :
                /\ FieldMatches(user.vehicles[k].plate, um.searchTerm)
                /\ FieldMatches(user.vehicles[k].description, um.searchTerm)

\* Storage cannot be read: access throws, or the stored user is not JSON.
StorageUnreadable == StorageThrows \/ storedUser = "corrupt"

\* C22 (as claimed): the reads of the auth store never propagate a failure:
\* when localStorage access throws or the stored user value is not parseable,
\* getStoredToken and getStoredUser yield absent (null) instead of throwing,
\* isAuthenticated returns false, and the dashboard's mount check starts the
\* navigation to /login instead of faulting.
C22_ReadFailuresMeanLoggedOut ==
    StorageUnreadable =>
        /\ getStoredToken # Thrown
        /\ getStoredUser = null
        /\ ~isAuthenticatedThrows /\ ~isAuthenticated
        /\ route # "error"
        /\ last.op = "dashboardMount" => navPending

\* The step invokes the fetch function of `view`: at its mount, on a tick, on
\* Retry, in the users view through the refresh callback of an RFID request,
\* in the history view through the effect that follows a change of page,
\* limit or filter.
FetchInvoked(view) ==
    /\ MountedView(view)'
    /\ \/ last'.op \in {"tick", "retry", "setActiveView"} /\ last'.view = view
       \/ /\ view = "users" /\ last'.op = "resolve" /\ last'.view = "rfid"
          /\ last'.calls # <<>>
       \/ /\ view = "parking-history" /\ last'.view = view /\ ph.mounted
          /\ \/ last'.op # "resolve" /\ HistoryDeps(ph') # HistoryDeps(ph)
             \/ /\ last'.op = "resolve" /\ IsSuccess(last'.resp)
                /\ HistoryDeps([ph EXCEPT !.pagination = last'.resp.pagination])
                      # HistoryDeps(ph)

\* The step is an RFID submit (with a user and a value that is not blank) or
\* an RFID remove.
RfidInvoked ==
    \/ last'.op = "handleSubmit" /\ ~IsBlank(rm.rfidValue)
    \/ last'.op = "handleRemoveRfid"

\* C23: every request other than login is issued with the header
\* Authorization: Bearer <token>, the token being the one stored when the
\* request is issued, and a request in flight keeps the header it was issued
\* with; with no token stored, a list refresh, an RFID submit and an RFID
\* remove issue no request and store the error "No authentication token
\* found".
C23_RequestsCarryBearerToken ==
    [][/\ last'.issued > 0 =>
             /\ token # null
             /\ inflight'[Len(inflight')].authorization =
                   (IF last'.view = "login" THEN Absent
                    ELSE Present(<<"Bearer ", token>>))
       /\ \A k \in DOMAIN inflight' :
             inflight'[k].view # "login" =>
                 /\ inflight'[k].authorization.present
                 /\ Len(inflight'[k].authorization.value) = 2
                 /\ inflight'[k].authorization.value[1] = "Bearer "
                 /\ inflight'[k].authorization.value[2] \in {"tok", "old"}
       /\ \A view \in ListViews :
             (FetchInvoked(view) /\ token = null) =>
                 /\ last'.issued = 0
                 /\ InNetwork' <= InNetwork
                 /\ ErrorOf(view)' = NoTokenMsg
       /\ (RfidInvoked /\ token = null) =>
             /\ last'.issued = 0
             /\ InNetwork' <= InNetwork
             /\ rm'.error = NoTokenMsg]_vars

\* A tick of the active-sessions view found no token (the user has logged
\* out, the page has not changed yet) while a request issued earlier is still
\* in flight with the token of its time.
C23_Witness ==
    /\ last.op = "tick" /\ last.view = "active-parking" /\ last.issued = 0
    /\ token = null /\ ap.error = NoTokenMsg
    /\ Len(inflight) = 1
    /\ inflight[1].authorization = Present(<<"Bearer ", "tok">>)

\* The pagination the claim's example names.
ExamplePagination == [total |-> 45, page |-> 2, limit |-> 20, pages |-> 3]

\* C24 (as claimed): for every pagination with pages > 1 and 1 <= page <=
\* pages the footer shows (page-1)*limit+1 to min(page*limit, total) of
\* total, and first <= last <= total.
C24_FooterRangeOrdered ==
    LET pg == ph.pagination
    IN (HistoryShown /\ pg.pages > 1 /\ 1 <= pg.page /\ pg.page <= pg.pages) =>
          /\ HistoryFooter[1] = (pg.page - 1) * pg.limit + 1
          /\ HistoryFooter[2] = (IF pg.page * pg.limit < pg.total
                                 THEN pg.page * pg.limit ELSE pg.total)
          /\ HistoryFooter[3] = pg.total
          /\ HistoryFooter[1] <= HistoryFooter[2]
          /\ HistoryFooter[2] <= HistoryFooter[3]

\* pages is the number of pages that total records fill: ceil(total / limit).
PagesMatchTotal(pg) ==
    pg.limit > 0 /\ pg.pages = (pg.total + pg.limit - 1) \div pg.limit

\* C24 (amended): for every pagination with pages > 1 and 1 <= page <= pages
\* the footer shows (page-1)*limit+1 to min(page*limit, total) of total; if
\* moreover pages = ceil(total / limit), then first <= last <= total; for
\* page = 2, limit = 20, total = 45, pages = 3 it shows 21 to 40 of 45; with
\* pages <= 1 no footer is shown.
C24_FooterRangeOfMatchingPages ==
    LET pg == ph.pagination
    IN /\ (HistoryShown /\ pg.pages > 1 /\ 1 <= pg.page /\ pg.page <= pg.pages) =>
             /\ HistoryFooter[1] = (pg.page - 1) * pg.limit + 1
             /\ HistoryFooter[2] = (IF pg.page * pg.limit < pg.total
                                    THEN pg.page * pg.limit ELSE pg.total)
             /\ HistoryFooter[3] = pg.total
             /\ PagesMatchTotal(pg) =>
                   /\ HistoryFooter[1] <= HistoryFooter[2]
                   /\ HistoryFooter[2] <= HistoryFooter[3]
       /\ (HistoryShown /\ pg = ExamplePagination) => HistoryFooter = <<21, 40, 45>>
       /\ pg.pages <= 1 => HistoryFooter = <<>>

\* The second of three pages holding 45 records is shown: 21 to 40 of 45.
C24_Witness ==
    /\ HistoryShown /\ ph.pagination = ExamplePagination
    /\ PagesMatchTotal(ph.pagination)
    /\ HistoryFooter = <<21, 40, 45>>

\* A page is shown and no redirect is under way: the login page, or the
\* dashboard past its mount check.
Settled == ~navPending /\ (route = "dashboard" => dash.checked)

HistoryRequests == RequestsOf("parking-history")

\* The controls of the history view that can start a request: the filter
\* controls, Apply, Clear and the page buttons (on the screen with the table),
\* and Retry (on the error screen).
HistoryControlsRendered == ph.mounted /\ ~ph.isLoading

HistoryFilterChanged ==
    last'.op \in FilterSetters /\ last'.view = "parking-history"

\* C27: in the history view a change of the payment-status, start-date,
\* end-date, sort-field or sort-order control invokes the fetch at once,
\* without Apply: with a token stored it issues one request, which carries
\* the new value and the page the view is on, and the pagination is left as it
\* was; a change of the search text issues no request and changes nothing but
\* the search text (from which the displayed records are derived).
C27_FilterControlsFetchAtOnce ==
    [][/\ HistoryFilterChanged =>
             /\ HistoryDeps(ph') # HistoryDeps(ph)
             /\ ph.pagination' = ph.pagination
             /\ ph.historyRecords' = ph.historyRecords
             /\ last'.issued = (IF token # null THEN 1 ELSE 0)
             /\ token # null =>
                   /\ ph.isLoading'
                   /\ inflight'[Len(inflight')].view = "parking-history"
                   /\ inflight'[Len(inflight')].params = HistoryParams(ph')
                   /\ inflight'[Len(inflight')].params.page = ph.pagination.page
                   /\ inflight'[Len(inflight')].params # HistoryParams(ph)
       /\ (last'.op = "setSearchTerm" /\ last'.view = "parking-history") =>
             /\ last'.issued = 0
             /\ inflight' = inflight /\ orphaned' = orphaned
             /\ ph.searchTerm' # ph.searchTerm
             /\ ph' = [ph EXCEPT !.searchTerm = ph.searchTerm']]_vars

\* On the second page, the start date was set: the request carries the date
\* and page 2, and Apply was not pressed.
C27_Witness ==
    /\ last.op = "setStartDate" /\ last.issued = 1
    /\ ph.pagination.page = 2
    /\ IssuedReq.params.page = 2
    /\ IssuedReq.params.startDate = "2025-01-01T00:00:00.000Z"

\* The response handled by the step names the page and the limit that the
\* request it answers asked for (the one history request in flight).
EchoesRequest ==
    /\ last'.resp.pagination.page = HistoryRequests[1].params.page
    /\ last'.resp.pagination.limit = HistoryRequests[1].params.limit

\* C28: a successful history response replaces records and pagination
\* wholesale; the arrival of a response issues a request exactly when the
\* response is successful and names a page or a limit other than the
\* requested one, and that request asks for the page and limit named; every
\* other response, and so every response of a backend that echoes page and
\* limit, issues none and leaves no history request in flight: each arrival
\* takes one request out of the network and puts at most one in, so after the
\* last user action the requests issued are those of responses that do not
\* echo.
C28_ResponseRefetchesOnlyOnMismatch ==
    [][(last'.op = "resolve" /\ last'.view = "parking-history") =>
          /\ Len(HistoryRequests) = 1
          /\ HistoryRequests[1].params.page = ph.pagination.page
          /\ HistoryRequests[1].params.limit = ph.pagination.limit
          /\ IsSuccess(last'.resp) =>
                /\ ph.pagination' = last'.resp.pagination
                /\ ph.historyRecords' = last'.resp.data
          /\ ~IsSuccess(last'.resp) => ph.pagination' = ph.pagination
          /\ last'.issued = (IF IsSuccess(last'.resp) /\ ~EchoesRequest /\ token # null
                             THEN 1 ELSE 0)
          /\ last'.issued = 1 =>
                /\ HistoryRequests'[1].params.page = last'.resp.pagination.page
                /\ HistoryRequests'[1].params.limit = last'.resp.pagination.limit
          /\ Len(HistoryRequests') = last'.issued
          /\ InNetwork' = InNetwork - 1 + last'.issued]_vars

\* A response that echoes the requested page and limit, with a total and a
\* number of pages the view did not hold before, has arrived on a later page:
\* nothing is in flight, the view is idle.
C28_Witness ==
    /\ last.op = "resolve" /\ last.view = "parking-history"
    /\ IsSuccess(last.resp) /\ last.issued = 0
    /\ ph.pagination = [total |-> 45, page |-> 3, limit |-> DefaultLimit \div 2,
                        pages |-> 5]
    /\ inflight = <<>> /\ ~ph.isLoading

\* localStorage holds a token exactly when it holds a user record, and a
\* record it holds has the role admin.
StorageConsistent ==
    /\ (token = null) <=> (storedUser = null)
    /\ storedUser \in {null, "admin"}

\* The step is the arrival of a login response that reaches the two
\* localStorage.setItem calls.
LoginStores == last'.op = "resolve" /\ last'.view = "login" /\ last'.calls # <<>>

\* C29: after any sequence of login attempts and logouts, localStorage holds
\* a token if and only if it holds a user record, and a record it holds has
\* role admin: storage changes only when a login response with role admin is
\* stored (both keys are written, after which isAuthenticated is true) and at
\* logout (both keys are removed, after which isAuthenticated is false).
C29_TokenAndAdminUserTogether ==
    [][/\ StorageConsistent /\ StorageConsistent'
       /\ (token' # token \/ storedUser' # storedUser) =>
             (LoginStores \/ last'.op = "handleLogout")
       /\ LoginStores =>
             /\ AdminLoginArrived'
             /\ token' = IssuedToken /\ storedUser' = "admin"
             /\ isAuthenticated'
       /\ last'.op = "handleLogout" =>
             /\ token' = null /\ storedUser' = null
             /\ ~isAuthenticated'
             /\ navPending']_vars

\* After a login as admin the user has logged out: both keys are gone and the
\* navigation to /login is under way.
C29_Witness ==
    /\ last.op = "handleLogout"
    /\ token = null /\ storedUser = null
    /\ ~isAuthenticated /\ navPending /\ route = "dashboard"

\* The auto-refresh timers that exist: the live setInterval handles.
Timers == intervals

\* The tab shown by a dashboard that is on the screen.
ActiveTab == IF route = "dashboard" THEN {dash.activeView} ELSE {}

\* C30: at most one auto-refresh timer exists at any time, and one exists
\* exactly when the active tab is users or active-parking (it is then the
\* timer of that tab); a switch away from such a tab cancels the timer of the
\* tab, so that no timer outlives its tab.
C30_OneTimerOfTheActiveTab ==
    [][/\ Cardinality(Timers') <= 1
       /\ Timers' = ActiveTab' \cap TimedViews
       /\ \A view \in TimedViews :
             (view \in Timers /\ ActiveTab' # {view}) => view \notin Timers']_vars

\* The user went from the users tab straight to the active-sessions tab:
\* the only timer is the one of the active-sessions view.
C30_Witness ==
    /\ last.op = "setActiveView" /\ last.view = "active-parking"
    /\ orphaned >= 1 /\ ~um.mounted /\ ap.mounted
    /\ Timers = {"active-parking"}
====
